---- MODULE Spec2Model ----
(***************************************************************************)
(* Model of the vpn-operator: four reconcilers (MaskProvider, Mask,        *)
(* MaskConsumer, MaskReservation) acting on a Kubernetes object store.     *)
(*                                                                         *)
(* The store is modelled with the semantics the code relies on: names are  *)
(* unique per kind and namespace (create answers 409 Conflict otherwise),  *)
(* every created object gets a fresh uid, a delete of an object that has   *)
(* a finalizer only stamps the deletion timestamp, the object leaves the   *)
(* store when its finalizers are emptied, and the garbage collector        *)
(* deletes objects whose owner reference names a uid that is gone.         *)
(*                                                                         *)
(* Every object carries its namespace.  Timestamps are not stored: "status *)
(* older than PROBE_INTERVAL" and "Pod older than the verification         *)
(* timeout" are inputs of the pass that reads them.                        *)
(***************************************************************************)
EXTENDS Naturals, Integers, Sequences, FiniteSets, TLC

(***************************************************************************)
(* Bounds of the model.                                                    *)
(***************************************************************************)
\* largest maxSlots the environment gives a MaskProvider
MaxSlotsBound == 2
\* how many times the environment creates a Mask of one name
MaxMaskCreates == 1
\* how many times the environment creates a MaskProvider of one name
MaxProviderCreates == 1
\* how many objects (Masks, MaskProviders) the environment deletes
MaxDeletes == 1

(***************************************************************************)
(* The universe: names are sequences of characters, as the Reservation     *)
(* name is formatted from the MaskProvider's name and parsed back.         *)
(***************************************************************************)
ProviderNames == {<<"p">>}
\* the MaskProviders of a state with two of them
AllProviderNames == ProviderNames \cup {<<"q">>}
MaskNames == {"m0", "m1"}
Tags == {"t", "u"}
\* the namespace of the MaskProviders, and another one
Namespaces == {"a", "b"}
\* payloads of a credential Secret
SecretData == {"d1", "d2"}

None == "None"

\* Option<T>: Nil is None, Some(x) is Some(x), Val unwraps
Nil == <<>>
Some(x) == <<x>>
Val(o) == o[1]

Digits == <<"0", "1", "2", "3", "4", "5", "6", "7", "8", "9">>

\* format!("{}", slot) for a usize
RECURSIVE FormatUsize(_)
FormatUsize(n) ==
    IF n < 10 THEN <<Digits[n + 1]>>
    ELSE FormatUsize(n \div 10) \o <<Digits[(n % 10) + 1]>>

DigitValue(c) == CHOOSE d \in 0..9 : Digits[d + 1] = c

IsDigit(c) == \E d \in 1..10 : Digits[d] = c

\* str::parse::<usize>(): None when the text is empty or has a non-digit
\* (a leading '+' is not produced by any name of the model)
RECURSIVE ParseDigits(_, _)
ParseDigits(s, acc) ==
    IF s = <<>> THEN acc
    ELSE ParseDigits(Tail(s), acc * 10 + DigitValue(Head(s)))

ParseUsize(s) ==
    IF s # <<>> /\ \A i \in 1..Len(s) : IsDigit(s[i])
    THEN Some(ParseDigits(s, 0))
    ELSE Nil

\* name.split('-').nth(1): the text between the first '-' and the second
RECURSIVE UpToDash(_)
UpToDash(s) ==
    IF s = <<>> \/ Head(s) = "-" THEN <<>> ELSE <<Head(s)>> \o UpToDash(Tail(s))

RECURSIVE SecondSegment(_)
SecondSegment(s) ==
    IF s = <<>> THEN <<>>
    ELSE IF Head(s) = "-" THEN UpToDash(Tail(s))
    ELSE SecondSegment(Tail(s))

\* name.split('-').last(): the text after the last '-'
RECURSIVE LastSegment(_)
LastSegment(s) ==
    IF \A i \in 1..Len(s) : s[i] # "-" THEN s
    ELSE LastSegment(Tail(s))

\* format!("{}-{}", provider_name, slot)
ReservationName(pname, slot) == pname \o <<"-">> \o FormatUsize(slot)

\* the names a MaskReservation of the model can have
ReservationNames ==
    {ReservationName(p, i) : p \in ProviderNames, i \in 0..(MaxSlotsBound - 1)}

\* format!("{}-{}", consumer_name, provider_uid)
SecretName(cname, puid) == <<cname, puid>>

\* format!("{}-verify", name): the name of the verification Mask, which no
\* Mask of a user has
get_verify_mask_name(name) == IF name = <<"p">> THEN "p-verify" ELSE "q-verify"

VerifyMaskNames == {get_verify_mask_name(p) : p \in ProviderNames}

\* the names a Mask, and its MaskConsumer, can have
AllMaskNames == MaskNames \cup VerifyMaskNames


(***************************************************************************)
(* The object store.                                                       *)
(***************************************************************************)
VARIABLES
    providers,      \* MaskProvider objects
    creds,          \* credential Secrets, by the MaskProvider name they serve
    masks,          \* Mask objects
    consumers,      \* MaskConsumer objects
    reservations,   \* MaskReservation objects
    secrets,        \* projected Secrets in the MaskConsumers' namespace
    cpc,            \* position of each MaskConsumer's reconcile pass
    cl,             \* locals of each MaskConsumer's reconcile pass
    budget,         \* what the environment may still do
    pods,           \* verification Pods
    rpc             \* position of each MaskReservation's reconcile pass

vars == <<providers, creds, masks, consumers, reservations, secrets, cpc, cl, budget, pods,
          rpc>>

Has(S, n) == \E o \in S : o.name = n
Get(S, n) == CHOOSE o \in S : o.name = n
Put(S, o) == {x \in S : x.name # o.name} \cup {o}

\* a uid nothing refers to any more stands for a fresh uid
FreshUid(name, used) ==
    <<name, CHOOSE k \in 1..(Cardinality(used) + 1) :
                <<name, k>> \notin used /\ \A j \in 1..(k - 1) : <<name, j>> \in used>>

\* The uid of an object that has left the store is never given to another
\* object: a reference to it is kept as Gone, which no object has for uid
Gone(uid) == <<uid[1], 0>>

Forget(uid, ref) == IF ref = uid THEN Gone(uid) ELSE ref

\* DELETE of an object: with a finalizer only the deletion timestamp is set
KubeDelete(S, o) ==
    IF o.fin THEN Put(S, [o EXCEPT !.delTs = TRUE]) ELSE {x \in S : x.name # o.name}

\* metadata.finalizers := null; an object being deleted then leaves the store
FinalizerDelete(S, o) ==
    IF o.delTs THEN {x \in S : x.name # o.name} ELSE Put(S, [o EXCEPT !.fin = FALSE])

\* metadata.finalizers := [FINALIZER_NAME]
FinalizerAdd(S, o) == Put(S, [o EXCEPT !.fin = TRUE])

ProviderUidsInUse ==
    {p.uid : p \in providers}
        \cup {r.owner : r \in reservations}
        \cup {Val(c.provider).uid : c \in {x \in consumers : x.provider # Nil}}
        \cup {s.label : s \in secrets}
        \cup {Val(m.verify) : m \in {x \in masks : x.verify # Nil}}
        \cup {Val(c.verify) : c \in {x \in consumers : x.verify # Nil}}
        \cup UNION {{q.uid : q \in {cl[c].provs[i] : i \in 1..Len(cl[c].provs)}} : c \in AllMaskNames}
        \cup UNION {{q.uid : q \in {cl[c].prune[i] : i \in 1..Len(cl[c].prune)}} : c \in AllMaskNames}

MaskUidsInUse ==
    {m.uid : m \in masks} \cup {c.owner : c \in consumers}

ConsumerUidsInUse ==
    {c.uid : c \in consumers}
        \cup {r.spec.uid : r \in reservations}
        \cup {s.owner : s \in secrets}
        \cup {x.owner : x \in pods}
        \cup {cl[c].uid : c \in {x \in AllMaskNames : cl[x].uid # Nil}}

\* the stores after the MaskConsumer of uid u has left
ConsumerGone(u) ==
    /\ reservations' = {[r EXCEPT !.spec.uid = Forget(u, @)] : r \in reservations}
    /\ secrets' = {[s EXCEPT !.owner = Forget(u, @)] : s \in secrets}

ReservationUidsInUse ==
    {r.uid : r \in reservations}
        \cup {Val(c.provider).reservation : c \in {x \in consumers : x.provider # Nil}}
        \cup {cl[c].created : c \in {x \in AllMaskNames : cl[x].created # Nil}}

\* locals of a pass that is not running
NoLocals ==
    [uid |-> Nil, ns |-> None, provs |-> <<>>, first |-> 0, slots |-> <<>>,
     pass |-> 0, prune |-> <<>>, pslot |-> 0, pruned |-> FALSE, created |-> Nil,
     target |-> Nil]

Init ==
    /\ providers = {}
    /\ creds = [p \in AllProviderNames |-> None]
    /\ masks = {}
    /\ consumers = {}
    /\ reservations = {}
    /\ secrets = {}
    /\ cpc = [c \in AllMaskNames |-> "idle"]
    /\ cl = [c \in AllMaskNames |-> NoLocals]
    /\ budget = [maskCreates |-> [m \in MaskNames |-> MaxMaskCreates],
                 providerCreates |-> [p \in ProviderNames |-> MaxProviderCreates],
                 deletes |-> MaxDeletes]
    /\ pods = {}
    /\ rpc = [n \in ReservationNames |-> "idle"]

(***************************************************************************)
(* The environment: the user creates and deletes Masks, MaskProviders and  *)
(* the credential Secret (test/util.rs).                                   *)
(***************************************************************************)
CreateProvider(p, n) ==
    /\ ~Has(providers, p)
    /\ budget.providerCreates[p] > 0
    /\ providers' = providers \cup
            {[name |-> p, ns |-> "a", uid |-> FreshUid(p, ProviderUidsInUse),
              maxSlots |-> n, tags |-> {"t"}, namespaces |-> Some({"a"}),
              skip |-> TRUE, fin |-> FALSE, delTs |-> FALSE,
              phase |-> None, activeSlots |-> Nil, lastVerified |-> FALSE]}
    /\ budget' = [budget EXCEPT !.providerCreates[p] = @ - 1]
    /\ UNCHANGED <<creds, masks, consumers, reservations, secrets, cpc, cl, pods, rpc>>

CreateProviderSecret(p, d) ==
    /\ creds[p] = None
    /\ creds' = [creds EXCEPT ![p] = d]
    /\ UNCHANGED <<providers, masks, consumers, reservations, secrets, cpc, cl, budget, pods, rpc>>

DeleteProvider(p) ==
    /\ Has(providers, p)
    /\ ~Get(providers, p).delTs
    /\ budget.deletes > 0
    /\ providers' = KubeDelete(providers, Get(providers, p))
    /\ budget' = [budget EXCEPT !.deletes = @ - 1]
    /\ UNCHANGED <<creds, masks, consumers, reservations, secrets, cpc, cl, pods, rpc>>

CreateMask(m, tag) ==
    /\ ~Has(masks, m)
    /\ budget.maskCreates[m] > 0
    /\ masks' = masks \cup
            {[name |-> m, ns |-> "a", uid |-> FreshUid(m, MaskUidsInUse),
              providers |-> Some({tag}), verify |-> Nil, owner |-> Nil,
              fin |-> FALSE, delTs |-> FALSE, phase |-> None]}
    /\ budget' = [budget EXCEPT !.maskCreates[m] = @ - 1]
    /\ UNCHANGED <<providers, creds, consumers, reservations, secrets, cpc, cl, pods, rpc>>

DeleteMask(m) ==
    /\ Has(masks, m)
    /\ ~Get(masks, m).delTs
    /\ budget.deletes > 0
    /\ masks' = KubeDelete(masks, Get(masks, m))
    /\ budget' = [budget EXCEPT !.deletes = @ - 1]
    /\ UNCHANGED <<providers, creds, consumers, reservations, secrets, cpc, cl, pods, rpc>>

(***************************************************************************)
(* The garbage collector of the store: an object whose owner reference     *)
(* names a uid that is gone is deleted.                                    *)
(***************************************************************************)
CollectConsumer(c) ==
    /\ Has(consumers, c)
    /\ LET o == Get(consumers, c) IN
        /\ ~o.delTs
        /\ o.owner \notin {m.uid : m \in masks}
        /\ consumers' = KubeDelete(consumers, o)
    /\ UNCHANGED <<providers, creds, masks, reservations, secrets, cpc, cl, budget, pods, rpc>>

CollectReservation(n) ==
    /\ Has(reservations, n)
    /\ LET r == Get(reservations, n) IN
        /\ ~r.delTs
        /\ r.owner \notin {p.uid : p \in providers}
        /\ reservations' = KubeDelete(reservations, r)
    /\ UNCHANGED <<providers, creds, masks, consumers, secrets, cpc, cl, budget, pods, rpc>>

CollectSecret(c) ==
    /\ \E s \in secrets :
        /\ s.name[1] = c
        /\ s.owner \notin {o.uid : o \in consumers}
        /\ secrets' = secrets \ {s}
    /\ UNCHANGED <<providers, creds, masks, consumers, reservations, cpc, cl, budget, pods, rpc>>


(***************************************************************************)
(* Mask reconciler.  A pass is one action: the read phase and the write    *)
(* phase of it.                                                            *)
(***************************************************************************)
\* masks/util.rs get_consumer: the child, by name and owner uid
get_consumer(m) ==
    IF Has(consumers, m.name) /\ Get(consumers, m.name).owner = m.uid
    THEN Some(Get(consumers, m.name))
    ELSE Nil

\* the mirror that copies the MaskConsumer's phase
MaskPhaseOf_copy(phase) == IF phase = None THEN "Waiting" ELSE phase

\* the Mask phase that mirrors a MaskConsumer phase
MaskPhaseOf(phase) ==
    CASE phase = "Active" -> "Active"
      [] phase = "ErrNoProviders" -> "ErrNoProviders"
      [] OTHER -> "Waiting"

MaskDelete(m) ==
    /\ Has(masks, m)
    /\ Get(masks, m).delTs
    /\ masks' = FinalizerDelete(masks, Get(masks, m))
    /\ UNCHANGED <<providers, creds, consumers, reservations, secrets, cpc, cl, budget, pods, rpc>>

MaskPending(m) ==
    /\ Has(masks, m)
    /\ LET o == Get(masks, m) IN
        /\ ~o.delTs
        /\ o.phase = None
        /\ masks' = Put(masks, [o EXCEPT !.fin = TRUE, !.phase = "Pending"])
    /\ UNCHANGED <<providers, creds, consumers, reservations, secrets, cpc, cl, budget, pods, rpc>>

MaskCreateConsumer(m) ==
    /\ Has(masks, m)
    /\ LET o == Get(masks, m) IN
        /\ ~o.delTs
        /\ o.phase # None
        /\ get_consumer(o) = Nil
        /\ IF Has(consumers, m)
           THEN \* 409 Conflict: a MaskConsumer of that name and another owner
                UNCHANGED <<masks, consumers>>
           ELSE /\ consumers' = consumers \cup
                        {[name |-> m, ns |-> o.ns, uid |-> FreshUid(m, ConsumerUidsInUse),
                          owner |-> o.uid, providers |-> o.providers,
                          verify |-> o.verify, fin |-> FALSE,
                          delTs |-> FALSE, phase |-> None, provider |-> Nil]}
                /\ masks' = Put(masks, [o EXCEPT !.phase = "Waiting"])
    /\ UNCHANGED <<providers, creds, reservations, secrets, cpc, cl, budget, pods, rpc>>

MaskMirror(m) ==
    /\ Has(masks, m)
    /\ LET o == Get(masks, m) IN
        /\ ~o.delTs
        /\ o.phase # None
        /\ get_consumer(o) # Nil
        /\ \E stale \in BOOLEAN :
            \* only written if differing or the status is stale
            /\ o.phase # MaskPhaseOf(Val(get_consumer(o)).phase) \/ stale
            /\ masks' = Put(masks, [o EXCEPT !.phase = MaskPhaseOf(Val(get_consumer(o)).phase)])
    /\ UNCHANGED <<providers, creds, consumers, reservations, secrets, cpc, cl, budget, pods, rpc>>

(***************************************************************************)
(* MaskConsumer reconciler (consumers/reconcile.rs, consumers/actions.rs). *)
(* Every pass but Assign is one action.                                    *)
(***************************************************************************)
needs_pending(o) == ~o.fin \/ o.phase = None

get_assigned_provider(o) == o.provider

\* get_reservation without the comparison of the uid
get_reservation_by_name(a) ==
    LET n == ReservationName(a.name, a.slot) IN
    IF Has(reservations, n) THEN Some(Get(reservations, n)) ELSE Nil

\* the MaskReservation the assignment names, if it still has the recorded uid
get_reservation(a) ==
    LET n == ReservationName(a.name, a.slot) IN
    IF Has(reservations, n) /\ Get(reservations, n).uid = a.reservation
    THEN Some(Get(reservations, n))
    ELSE Nil

\* determine_action without the look-up of the projected Secret
get_secret_unchecked(name, a) == Some(SecretName(name, a.uid))

\* the projected Secret {name}-{provider uid}
get_secret(name, a) ==
    IF Has(secrets, SecretName(name, a.uid))
    THEN Some(Get(secrets, SecretName(name, a.uid)))
    ELSE Nil

\* determine_action that looks at the assignment before the rest
determine_action_assign_first(o) ==
    IF get_assigned_provider(o) = Nil THEN "Assign"
    ELSE IF o.delTs THEN "Delete"
    ELSE IF needs_pending(o) THEN "Pending"
    ELSE IF get_reservation(Val(o.provider)) = Nil THEN "DeleteResource"
    ELSE IF get_secret(o.name, Val(o.provider)) = Nil THEN "CreateSecret"
    ELSE "Status"

\* determine_action that assigns again while the projected Secret is missing
determine_action_reassign(o) ==
    IF o.delTs THEN "Delete"
    ELSE IF needs_pending(o) THEN "Pending"
    ELSE IF get_assigned_provider(o) = Nil THEN "Assign"
    ELSE IF get_reservation(Val(o.provider)) = Nil THEN "DeleteResource"
    ELSE IF get_secret(o.name, Val(o.provider)) = Nil THEN "Assign"
    ELSE "Status"

\* the action a pass takes on the MaskConsumer o
determine_action(o) ==
    IF o.delTs THEN "Delete"
    ELSE IF needs_pending(o) THEN "Pending"
    ELSE IF get_assigned_provider(o) = Nil THEN "Assign"
    ELSE IF get_reservation(Val(o.provider)) = Nil THEN "DeleteResource"
    ELSE IF get_secret(o.name, Val(o.provider)) = Nil THEN "CreateSecret"
    ELSE "Status"

Idle(c) == cpc[c] = "idle" /\ Has(consumers, c)

\* Delete { delete_resource: false }: phase Terminating, finalizer removed
ConsumerDelete(c) ==
    /\ Idle(c)
    /\ LET o == Get(consumers, c) IN
        /\ determine_action(o) = "Delete"
        /\ consumers' = FinalizerDelete(consumers, [o EXCEPT !.phase = "Terminating"])
        /\ ConsumerGone(o.uid)
    /\ UNCHANGED <<providers, creds, masks, cpc, cl, budget, pods, rpc>>

\* Delete { delete_resource: true }: the MaskReservation is gone
ConsumerSelfDelete(c) ==
    /\ Idle(c)
    /\ LET o == Get(consumers, c)
           t == [o EXCEPT !.phase = "Terminating", !.fin = FALSE] IN
        /\ determine_action(o) = "DeleteResource"
        /\ consumers' = KubeDelete(FinalizerDelete(consumers, [o EXCEPT !.phase = "Terminating"]), t)
        /\ ConsumerGone(o.uid)
    /\ UNCHANGED <<providers, creds, masks, cpc, cl, budget, pods, rpc>>

ConsumerPending(c) ==
    /\ Idle(c)
    /\ LET o == Get(consumers, c) IN
        /\ determine_action(o) = "Pending"
        /\ consumers' = Put(consumers, [o EXCEPT !.fin = TRUE, !.phase = "Pending"])
    /\ UNCHANGED <<providers, creds, masks, reservations, secrets, cpc, cl, budget, pods, rpc>>

\* create_secret with a payload of its own
create_secret_fixed(o) ==
    [name |-> Val(o.provider).secret, owner |-> o.uid, label |-> Val(o.provider).uid,
     data |-> "d1"]

\* create_secret: a copy of the MaskProvider's credential Secret
create_secret(o) ==
    [name |-> Val(o.provider).secret, owner |-> o.uid, label |-> Val(o.provider).uid,
     data |-> creds[Val(o.provider).name]]

ConsumerCreateSecret(c) ==
    /\ Idle(c)
    /\ LET o == Get(consumers, c) IN
        /\ determine_action(o) = "CreateSecret"
        /\ IF Has(providers, Val(o.provider).name) /\ creds[Val(o.provider).name] # None
                /\ ~Has(secrets, Val(o.provider).secret)
           THEN secrets' = secrets \cup {create_secret(o)}
           ELSE \* get_provider_secret answers 404: the pass ends in an error
                UNCHANGED secrets
    /\ UNCHANGED <<providers, creds, masks, consumers, reservations, cpc, cl, budget, pods, rpc>>

\* determine_status_action: Active when the phase is not Active or the
\* status is older than PROBE_INTERVAL, else NoOp
ConsumerActive(c) ==
    /\ Idle(c)
    /\ LET o == Get(consumers, c) IN
        /\ determine_action(o) = "Status"
        /\ \E stale \in BOOLEAN :
            /\ o.phase # "Active" \/ stale
            /\ consumers' = Put(consumers, [o EXCEPT !.phase = "Active"])
    /\ UNCHANGED <<providers, creds, masks, reservations, secrets, cpc, cl, budget, pods, rpc>>

(***************************************************************************)
(* The Assign pass of the MaskConsumer reconciler (assign_provider).  It   *)
(* is split at its calls to the API server: other reconcilers run between  *)
(* two of its steps.  The MaskConsumer has its finalizer during the pass   *)
(* and passes for one object are serialized, so the instance the pass      *)
(* holds keeps naming the object in the store.                             *)
(***************************************************************************)
\* what the pass keeps of a listed MaskProvider
Snap(p) == [name |-> p.name, ns |-> p.ns, uid |-> p.uid, maxSlots |-> p.maxSlots]

\* the items of a list call, in the order of the listing
RECURSIVE SeqOf(_)
SeqOf(S) ==
    IF S = {} THEN <<>>
    ELSE LET x == CHOOSE y \in S : TRUE IN <<x>> \o SeqOf(S \ {x})

\* list_active_providers without the filter on the phase
list_active_providers_any_phase(filter_tags, mask_namespace) ==
    {p \in providers :
        /\ ~p.delTs
        /\ p.namespaces # Nil => mask_namespace \in Val(p.namespaces)
        /\ filter_tags # Nil => p.tags \cap Val(filter_tags) # {}}

\* list_active_providers that keeps only the phase Active
list_active_providers_active_only(filter_tags, mask_namespace) ==
    {p \in providers :
        /\ ~p.delTs
        /\ p.namespaces # Nil => mask_namespace \in Val(p.namespaces)
        /\ p.phase = "Active"
        /\ filter_tags # Nil => p.tags \cap Val(filter_tags) # {}}

\* the MaskProviders that are not being deleted, admit the namespace, are
\* Ready or Active and, when the MaskConsumer names tags, carry one of them
list_active_providers(filter_tags, mask_namespace) ==
    {p \in providers :
        /\ ~p.delTs
        /\ p.namespaces # Nil => mask_namespace \in Val(p.namespaces)
        /\ p.phase \in {"Ready", "Active"}
        /\ filter_tags # Nil => p.tags \cap Val(filter_tags) # {}}

\* the first attempt leaves out the MaskProviders whose status is at capacity
BelowCapacity(p) == p.activeSlots = Nil \/ Val(p.activeSlots) < p.maxSlots

\* list_active_slots without the filter on the owner reference
list_active_slots_any_owner(p) ==
    {Val(ParseUsize(LastSegment(r.name))) :
        r \in {x \in reservations : ParseUsize(LastSegment(x.name)) # Nil}}

\* the slot numbers of the MaskReservations that the MaskProvider owns
list_active_slots(p) ==
    {Val(ParseUsize(LastSegment(r.name))) :
        r \in {x \in reservations : x.owner = p.uid /\ ParseUsize(LastSegment(x.name)) # Nil}}

\* list_inactive_slots with the range 0..=max_slots
list_inactive_slots_inclusive(p) ==
    {slot \in 0..p.maxSlots : slot \notin list_active_slots(p)}

list_inactive_slots(p) ==
    {slot \in 0..(p.maxSlots - 1) : slot \notin list_active_slots(p)}

\* ascending sequence of a set of slot numbers
RECURSIVE Ascending(_)
Ascending(S) ==
    IF S = {} THEN <<>>
    ELSE LET x == CHOOSE y \in S : \A z \in S : y <= z IN <<x>> \o Ascending(S \ {x})

consumer_uses_reservation(o, p, slot) ==
    /\ o.provider # Nil
    /\ Val(o.provider).name = p.name
    /\ Val(o.provider).slot = slot

\* check_prune without the look-up of the MaskConsumer
check_prune_any(p, slot) ==
    LET n == ReservationName(p.name, slot) IN
    Has(reservations, n) /\ Get(reservations, n).owner = p.uid

check_prune(p, slot) ==
    LET n == ReservationName(p.name, slot) IN
    /\ Has(reservations, n)
    /\ Get(reservations, n).owner = p.uid
    /\ LET r == Get(reservations, n) IN
        \/ ~Has(consumers, r.spec.name)
        \/ Get(consumers, r.spec.name).uid # r.spec.uid
        \/ ~consumer_uses_reservation(Get(consumers, r.spec.name), p, slot)

create_reservation(c, uid, p, slot) ==
    [name |-> ReservationName(p.name, slot), ns |-> p.ns,
     uid |-> FreshUid(ReservationName(p.name, slot), ReservationUidsInUse),
     owner |-> p.uid, spec |-> [name |-> c, uid |-> uid],
     fin |-> FALSE, delTs |-> FALSE, phase |-> None]

\* prune, prune_provider: the next slot to check, or the end of the pruning
\* (for slot in 0..max_slots: a MaskProvider of no slot has nothing to check).
\* After the pruning assign_provider lists the MaskProviders again, and
\* assign_verify_provider tries its MaskProvider again if a slot was pruned
RECURSIVE AdvancePrune(_)
AdvancePrune(l) ==
    IF l.prune = <<>>
    THEN IF l.target = Nil THEN <<"relist", l>>
         ELSE IF l.pruned
         THEN <<"scan", [NoLocals EXCEPT !.uid = l.uid, !.ns = l.ns, !.pass = 2,
                                         !.provs = <<Val(l.target)>>, !.target = l.target]>>
         ELSE <<"waiting", [NoLocals EXCEPT !.uid = l.uid, !.ns = l.ns]>>
    ELSE IF Head(l.prune).maxSlots = 0 THEN AdvancePrune([l EXCEPT !.prune = Tail(@)])
    ELSE <<"check", l>>

NextSlot(l) ==
    IF l.pslot + 1 < Head(l.prune).maxSlots
    THEN <<"check", [l EXCEPT !.pslot = @ + 1]>>
    ELSE AdvancePrune([l EXCEPT !.prune = Tail(@), !.pslot = 0])

\* assign_provider_base: the next MaskProvider of the attempt, or its end
\* (a local that is not read again is reset, which no step observes); the
\* first attempt of assign_verify_provider is followed by prune_provider of
\* its MaskProvider
AfterScan(l) ==
    IF l.provs # <<>> THEN <<"scan", l>>
    ELSE IF l.pass = 1
    THEN IF l.target = Nil THEN <<"prune", l>>
         ELSE AdvancePrune([l EXCEPT !.prune = <<Val(l.target)>>, !.pslot = 0])
    ELSE <<"waiting", [NoLocals EXCEPT !.uid = l.uid, !.ns = l.ns]>>

\* try_reserve_slot with the 409 Conflict taken for an error
AfterConflict_as_error(l) == <<"idle", NoLocals>>

\* try_reserve_slot: after a 409 Conflict the next slot of the scan, or the
\* next MaskProvider
AfterConflict(l) ==
    IF Tail(l.slots) # <<>>
    THEN <<"create", [l EXCEPT !.slots = Tail(@)]>>
    ELSE AfterScan([l EXCEPT !.slots = <<>>, !.provs = Tail(@)])

Goto(c, t) ==
    /\ cpc' = [cpc EXCEPT ![c] = t[1]]
    /\ cl' = [cl EXCEPT ![c] = t[2]]

EndPass(c) == Goto(c, <<"idle", NoLocals>>)

AssignStart(c) ==
    /\ Idle(c)
    /\ LET o == Get(consumers, c)
           all == list_active_providers(o.providers, o.ns)
           first == SeqOf({Snap(p) : p \in {q \in all : BelowCapacity(q)}}) IN
        /\ determine_action(o) = "Assign"
        /\ o.verify = Nil
        /\ IF all = {}
           THEN Goto(c, <<"noproviders", [NoLocals EXCEPT !.uid = o.uid, !.ns = o.ns]>>)
           ELSE Goto(c, AfterScan([NoLocals EXCEPT !.uid = o.uid, !.ns = o.ns, !.provs = first,
                                    !.first = Len(first), !.pass = 1]))
    /\ UNCHANGED <<providers, creds, masks, consumers, reservations, secrets, budget, pods, rpc>>

\* assign_verify_provider: the MaskProvider of the uid that the label names,
\* among those of the MaskConsumer's namespace, whatever its phase; none of
\* that uid is an error that ends the pass
AssignVerifyStart(c) ==
    /\ Idle(c)
    /\ LET o == Get(consumers, c)
           found == {p \in providers : p.ns = o.ns /\ p.uid = Val(o.verify)} IN
        /\ determine_action(o) = "Assign"
        /\ o.verify # Nil
        /\ IF found = {}
           THEN UNCHANGED <<cpc, cl>>
           ELSE LET p == Snap(CHOOSE x \in found : TRUE) IN
                Goto(c, <<"scan", [NoLocals EXCEPT !.uid = o.uid, !.ns = o.ns,
                                      !.provs = <<p>>, !.first = 1, !.pass = 1,
                                      !.target = Some(p)]>>)
    /\ UNCHANGED <<providers, creds, masks, consumers, reservations, secrets, budget, pods, rpc>>

AssignNoProviders(c) ==
    /\ cpc[c] = "noproviders"
    /\ IF Has(consumers, c)
       THEN consumers' = Put(consumers, [Get(consumers, c) EXCEPT !.phase = "ErrNoProviders"])
       ELSE UNCHANGED consumers
    /\ EndPass(c)
    /\ UNCHANGED <<providers, creds, masks, reservations, secrets, budget, pods, rpc>>

\* try_reserve_slot: list_inactive_slots of the MaskProvider at hand
AssignScan(c) ==
    /\ cpc[c] = "scan"
    /\ LET l == cl[c]
           slots == Ascending(list_inactive_slots(Head(l.provs))) IN
        IF slots = <<>>
        THEN Goto(c, AfterScan([l EXCEPT !.provs = Tail(@)]))
        ELSE Goto(c, <<"create", [l EXCEPT !.slots = slots]>>)
    /\ UNCHANGED <<providers, creds, masks, consumers, reservations, secrets, budget, pods, rpc>>

\* try_reserve_slot: create_reservation for the slot at hand
AssignCreate(c) ==
    /\ cpc[c] = "create"
    /\ LET l == cl[c]
           p == Head(l.provs)
           r == create_reservation(c, l.uid, p, Head(l.slots)) IN
        IF l.ns # r.ns
        THEN \* the request goes to the MaskConsumer's namespace and the object
             \* names the MaskProvider's: 400 Bad Request, which ends the pass
             /\ EndPass(c)
             /\ UNCHANGED reservations
        ELSE IF Has(reservations, r.name)
        THEN \* 409 Conflict: the next slot, or the next MaskProvider
             /\ Goto(c, AfterConflict(l))
             /\ UNCHANGED reservations
        ELSE /\ reservations' = reservations \cup {r}
             /\ Goto(c, <<"patch", [NoLocals EXCEPT !.uid = l.uid, !.ns = l.ns, !.provs = <<p>>,
                                      !.slots = <<Head(l.slots)>>, !.created = r.uid]>>)
    /\ UNCHANGED <<providers, creds, masks, consumers, secrets, budget, pods, rpc>>

\* try_reserve_slot: the assignment is written to the MaskConsumer's status
AssignPatch(c) ==
    /\ cpc[c] = "patch"
    /\ LET l == cl[c]
           p == Head(l.provs) IN
        IF Has(consumers, c)
        THEN consumers' = Put(consumers, [Get(consumers, c) EXCEPT !.provider =
                Some([name |-> p.name, uid |-> p.uid, slot |-> Head(l.slots),
                      reservation |-> l.created, secret |-> SecretName(c, p.uid)])])
        ELSE UNCHANGED consumers
    /\ EndPass(c)
    /\ UNCHANGED <<providers, creds, masks, reservations, secrets, budget, pods, rpc>>


\* prune: the list of all MaskProviders whose slots are checked
AssignPruneList(c) ==
    /\ cpc[c] = "prune"
    /\ Goto(c, AdvancePrune([cl[c] EXCEPT !.prune = SeqOf({Snap(p) : p \in providers}),
                                        !.pslot = 0]))
    /\ UNCHANGED <<providers, creds, masks, consumers, reservations, secrets, budget, pods, rpc>>

\* prune_provider: check_prune of the slot at hand
AssignCheckPrune(c) ==
    /\ cpc[c] = "check"
    /\ IF check_prune(Head(cl[c].prune), cl[c].pslot)
       THEN Goto(c, <<"prunedel", cl[c]>>)
       ELSE Goto(c, NextSlot(cl[c]))
    /\ UNCHANGED <<providers, creds, masks, consumers, reservations, secrets, budget, pods, rpc>>

\* prune_provider: the MaskReservation of that name is deleted; an answer of
\* 404 Not Found is an error that ends the pass
AssignPruneDelete(c) ==
    /\ cpc[c] = "prunedel"
    /\ LET n == ReservationName(Head(cl[c].prune).name, cl[c].pslot) IN
        IF Has(reservations, n)
        THEN /\ reservations' = KubeDelete(reservations, Get(reservations, n))
             /\ Goto(c, NextSlot([cl[c] EXCEPT !.pruned = TRUE]))
        ELSE /\ UNCHANGED reservations
             /\ EndPass(c)
    /\ UNCHANGED <<providers, creds, masks, consumers, secrets, budget, pods, rpc>>

\* assign_provider: the second listing, and the decision to retry
AssignRelist(c) ==
    /\ cpc[c] = "relist"
    /\ LET l == cl[c]
           new == IF Has(consumers, c)
                  THEN list_active_providers(Get(consumers, c).providers, Get(consumers, c).ns)
                  ELSE {} IN
        IF l.pruned \/ l.first # Cardinality(new)
        THEN Goto(c, AfterScan([NoLocals EXCEPT !.uid = l.uid, !.ns = l.ns, !.pass = 2,
                                          !.provs = SeqOf({Snap(p) : p \in new})]))
        ELSE Goto(c, <<"waiting", [NoLocals EXCEPT !.uid = l.uid, !.ns = l.ns]>>)
    /\ UNCHANGED <<providers, creds, masks, consumers, reservations, secrets, budget, pods, rpc>>

\* AssignWaiting with the phase of the empty eligible set
AssignWaiting_as_error(c) ==
    /\ cpc[c] = "waiting"
    /\ IF Has(consumers, c)
       THEN consumers' = Put(consumers, [Get(consumers, c) EXCEPT !.phase = "ErrNoProviders"])
       ELSE UNCHANGED consumers
    /\ EndPass(c)
    /\ UNCHANGED <<providers, creds, masks, reservations, secrets, budget, pods, rpc>>

AssignWaiting(c) ==
    /\ cpc[c] = "waiting"
    /\ IF Has(consumers, c)
       THEN consumers' = Put(consumers, [Get(consumers, c) EXCEPT !.phase = "Waiting"])
       ELSE UNCHANGED consumers
    /\ EndPass(c)
    /\ UNCHANGED <<providers, creds, masks, reservations, secrets, budget, pods, rpc>>

(***************************************************************************)
(* MaskReservation reconciler (reservations/reconcile.rs).                 *)
(***************************************************************************)
reservation_needs_pending(r) == ~r.fin \/ r.phase = None

\* reservations/reconcile.rs get_consumer: the paired MaskConsumer
reservation_get_consumer(r) ==
    IF Has(consumers, r.spec.name) /\ Get(consumers, r.spec.name).uid = r.spec.uid
    THEN Some(Get(consumers, r.spec.name))
    ELSE Nil

\* determine_action without the look-up of the paired MaskConsumer
reservation_determine_action_no_lookup(r) ==
    IF r.delTs THEN "Delete"
    ELSE IF reservation_needs_pending(r) THEN "Pending"
    ELSE "Status"

reservation_determine_action(r) ==
    IF r.delTs THEN "Delete"
    ELSE IF reservation_needs_pending(r) THEN "Pending"
    ELSE IF reservation_get_consumer(r) = Nil THEN "DeleteResource"
    ELSE "Status"

\* a pass of the MaskReservation n may start
ReservationIdle(n) == rpc[n] = "idle" /\ Has(reservations, n)

ReservationPending(n) ==
    /\ ReservationIdle(n)
    /\ LET r == Get(reservations, n) IN
        /\ reservation_determine_action(r) = "Pending"
        /\ reservations' = Put(reservations, [r EXCEPT !.fin = TRUE, !.phase = "Pending"])
    /\ UNCHANGED <<providers, creds, masks, consumers, secrets, cpc, cl, budget, pods, rpc>>

\* delete_consumer that does not look for the paired MaskConsumer
delete_consumer_found_none(r) == Nil

\* delete_consumer: the MaskConsumer of the name and the uid of the spec
delete_consumer_found(r) == reservation_get_consumer(r)

\* Delete { delete_resource: false }: terminating, and delete_consumer reads
\* the paired MaskConsumer; the finalizer is removed only when it is gone
ReservationDelete(n) ==
    /\ ReservationIdle(n)
    /\ LET r == Get(reservations, n) IN
        /\ reservation_determine_action(r) = "Delete"
        /\ IF delete_consumer_found(r) # Nil
           THEN /\ reservations' = Put(reservations, [r EXCEPT !.phase = "Terminating"])
                /\ rpc' = [rpc EXCEPT ![n] = "delete"]
           ELSE /\ reservations' = FinalizerDelete(reservations, r)
                /\ UNCHANGED rpc
    /\ UNCHANGED <<providers, creds, masks, consumers, secrets, cpc, cl, budget, pods>>

\* delete_consumer: the delete of the MaskConsumer, by its name; the pass
\* keeps the finalizer and is queued again (an answer of 404 Not Found is an
\* error that ends the pass)
ReservationDeleteConsumer(n) ==
    /\ rpc[n] = "delete"
    /\ rpc' = [rpc EXCEPT ![n] = "idle"]
    /\ IF Has(reservations, n) /\ Has(consumers, Get(reservations, n).spec.name)
       THEN LET o == Get(consumers, Get(reservations, n).spec.name) IN
            /\ consumers' = KubeDelete(consumers, o)
            /\ IF o.fin THEN UNCHANGED <<reservations, secrets>> ELSE ConsumerGone(o.uid)
       ELSE UNCHANGED <<consumers, reservations, secrets>>
    /\ UNCHANGED <<providers, creds, masks, cpc, cl, budget, pods>>

\* Delete { delete_resource: true }: the paired MaskConsumer is gone
ReservationSelfDelete(n) ==
    /\ ReservationIdle(n)
    /\ LET r == Get(reservations, n) IN
        /\ reservation_determine_action(r) = "DeleteResource"
        /\ reservations' = reservations \ {r}
    /\ UNCHANGED <<providers, creds, masks, consumers, secrets, cpc, cl, budget, pods, rpc>>

ReservationActive(n) ==
    /\ ReservationIdle(n)
    /\ LET r == Get(reservations, n) IN
        /\ reservation_determine_action(r) = "Status"
        /\ \E stale \in BOOLEAN :
            /\ r.phase # "Active" \/ stale
            /\ reservations' = Put(reservations, [r EXCEPT !.phase = "Active"])
    /\ UNCHANGED <<providers, creds, masks, consumers, secrets, cpc, cl, budget, pods, rpc>>


(***************************************************************************)
(* MaskProvider reconciler (providers/reconcile.rs).  A MaskProvider with  *)
(* spec.verify.skip goes to Ready without verification; one without it     *)
(* goes through the verification Mask and the verification Pod.            *)
(***************************************************************************)
provider_needs_pending(p) == p.phase = None

provider_needs_finalizer(p) == ~p.fin

\* count_reservations lists the ConfigMaps that the MaskProvider owns;
\* the operator creates no ConfigMap
ConfigMaps == {}

count_reservations(p) == Cardinality({cm \in ConfigMaps : cm.owner = p.uid})

\* the verification Pod has the name of the MaskProvider
get_verify_pod(p) ==
    IF \E x \in pods : x.name = p.name
    THEN Some(CHOOSE x \in pods : x.name = p.name)
    ELSE Nil

get_verify_mask(p) ==
    IF Has(masks, get_verify_mask_name(p.name))
    THEN Some(Get(masks, get_verify_mask_name(p.name)))
    ELSE Nil

\* the verification Mask is present and the Pod is not
determine_verify_mask_action_eager(mask) ==
    CASE mask.phase \in {None, "Pending"} -> "Verifying"
      [] mask.phase \in {"Ready", "Active", "Waiting"} -> "CreateVerifyPod"
      [] mask.phase = "ErrNoProviders" -> "VerifyFailed"

determine_verify_mask_action(mask) ==
    CASE mask.phase \in {None, "Pending"} -> "Verifying"
      [] mask.phase \in {"Ready", "Active"} -> "CreateVerifyPod"
      [] mask.phase = "Waiting" -> "Verifying"
      [] mask.phase = "ErrNoProviders" -> "VerifyFailed"

VPN_CONTAINER_NAME == "vpn"
PROBE_CONTAINER_NAME == "probe"

\* cs.iter().filter(|s| s.name == name).next(): the first container status
\* of the name (a status without a state is one that is not running and
\* not terminated)
container_status(pod, name) ==
    IF \E i \in 1..Len(pod.containers) : pod.containers[i].name = name
    THEN Some(pod.containers[CHOOSE i \in 1..Len(pod.containers) :
                /\ pod.containers[i].name = name
                /\ \A j \in 1..(i - 1) : pod.containers[j].name # name])
    ELSE Nil

\* is_probe_successful that does not look at the VPN container
is_probe_successful_probe_only(pod) ==
    /\ container_status(pod, PROBE_CONTAINER_NAME) # Nil
    /\ Val(container_status(pod, PROBE_CONTAINER_NAME)).terminated = Some(0)

\* the VPN container is running and the probe container has exited with 0
is_probe_successful(pod) ==
    /\ container_status(pod, VPN_CONTAINER_NAME) # Nil
    /\ Val(container_status(pod, VPN_CONTAINER_NAME)).running
    /\ container_status(pod, PROBE_CONTAINER_NAME) # Nil
    /\ Val(container_status(pod, PROBE_CONTAINER_NAME)).terminated = Some(0)

NoSchedulingMessage == "PodScheduled == False, but no message was provided."

\* the message of the first condition PodScheduled = False, if any
check_pod_scheduling_error(pod) ==
    IF \E i \in 1..Len(pod.conditions) :
            pod.conditions[i].type = "PodScheduled" /\ pod.conditions[i].status = "False"
    THEN LET c == pod.conditions[CHOOSE i \in 1..Len(pod.conditions) :
                    /\ pod.conditions[i].type = "PodScheduled"
                    /\ pod.conditions[i].status = "False"
                    /\ \A j \in 1..(i - 1) :
                        ~(pod.conditions[j].type = "PodScheduled"
                            /\ pod.conditions[j].status = "False")] IN
         Some(IF c.message = Nil THEN NoSchedulingMessage ELSE Val(c.message))
    ELSE Nil

DEFAULT_VERIFY_TIMEOUT == 60

\* spec.verify.timeout is not set on the MaskProviders of the model
get_verify_timeout(p) == DEFAULT_VERIFY_TIMEOUT

\* the ages of a Pod that a pass can find, in seconds
PodAges == {0, DEFAULT_VERIFY_TIMEOUT, DEFAULT_VERIFY_TIMEOUT + 1}

\* get_pod_age(pod) > get_verify_timeout(instance)
pod_too_old(age, timeout) == age > timeout

\* late: the Pod is older than the verification timeout
check_verify_timeout(late) == IF late THEN "VerifyFailed" ELSE "Verifying"

\* the verification Pod is present
determine_verify_pod_action(pod, late) ==
    IF is_probe_successful(pod) THEN "Verified"
    ELSE CASE pod.phase = "Pending" ->
                    IF check_pod_scheduling_error(pod) # Nil THEN "VerifyFailed"
                    ELSE check_verify_timeout(late)
           [] pod.phase = "Running" -> check_verify_timeout(late)
           [] pod.phase = "Succeeded" -> "Verified"
           [] OTHER -> "VerifyFailed"

\* the message that MaskProviderAction::VerifyFailed carries
determine_verify_pod_message(pod, late) ==
    IF determine_verify_pod_action(pod, late) # "VerifyFailed" THEN Nil
    ELSE CASE pod.phase = "Pending" ->
                    IF check_pod_scheduling_error(pod) # Nil
                    THEN check_pod_scheduling_error(pod)
                    ELSE Some("Verification timed out waiting for Pod to schedule.")
           [] pod.phase = "Running" ->
                    Some("Verification timed out waiting for Pod to schedule.")
           [] OTHER -> Some("Unknown error occurred during verification.")

\* determine_verify_action that looks at the Pod and the Mask even when the
\* verification is skipped
determine_verify_action_no_skip(p, late) ==
    IF get_verify_pod(p) # Nil
    THEN Some(determine_verify_pod_action(Val(get_verify_pod(p)), late))
    ELSE IF get_verify_mask(p) # Nil
    THEN Some(determine_verify_mask_action(Val(get_verify_mask(p))))
    ELSE IF p.lastVerified THEN Nil
    ELSE Some("CreateVerifyMask")

\* the step of the verification that is due, if any (the MaskProviders of
\* the model ask for no periodic verification: spec.verify.interval unset)
determine_verify_action(p, late) ==
    IF p.skip THEN Nil
    ELSE IF get_verify_pod(p) # Nil
    THEN Some(determine_verify_pod_action(Val(get_verify_pod(p)), late))
    ELSE IF get_verify_mask(p) # Nil
    THEN Some(determine_verify_mask_action(Val(get_verify_mask(p))))
    ELSE IF p.lastVerified THEN Nil
    ELSE Some("CreateVerifyMask")

\* (whether a step of the verification is due does not depend on the age
\* of the Pod)
provider_determine_action(p) ==
    IF p.delTs THEN "Delete"
    ELSE IF provider_needs_pending(p) THEN "Pending"
    ELSE IF provider_needs_finalizer(p) THEN "AddFinalizer"
    ELSE IF creds[p.name] = None THEN "SecretNotFound"
    ELSE IF determine_verify_action(p, FALSE) # Nil THEN "Verify"
    ELSE "Status"

\* the step of the verification that a pass takes
VerifyAction(p, late) ==
    IF provider_determine_action(p) = "Verify"
    THEN Val(determine_verify_action(p, late))
    ELSE "None"

\* DELETE of the verification Pod: the Pod is terminated and leaves the
\* store when its containers have stopped
delete_verify_pod(p) ==
    {IF x.name = p.name THEN [x EXCEPT !.delTs = TRUE] ELSE x : x \in pods}

delete_verify_mask(p) ==
    IF get_verify_mask(p) # Nil THEN KubeDelete(masks, Val(get_verify_mask(p))) ELSE masks

\* the verification Mask: labelled with the uid of the MaskProvider, owned
\* by it, with no spec.providers
verify_mask(p) ==
    [name |-> get_verify_mask_name(p.name), ns |-> p.ns,
     uid |-> FreshUid(get_verify_mask_name(p.name), MaskUidsInUse),
     providers |-> Nil, verify |-> Some(p.uid), owner |-> Some(p.uid),
     fin |-> FALSE, delTs |-> FALSE, phase |-> None]

\* the verification Pod: named after the MaskProvider, owned by the
\* MaskConsumer of the verification Mask
verify_pod(p, consumer) ==
    [name |-> p.name, owner |-> consumer.uid, phase |-> "Pending",
     containers |-> <<>>, conditions |-> <<>>, delTs |-> FALSE]

mask_uses_provider(p, o) ==
    /\ o.provider # Nil
    /\ Val(o.provider).name = p.name
    /\ Val(o.provider).uid = p.uid

\* unassign_all: the assignment of every MaskConsumer that uses the
\* MaskProvider is cleared and its projected Secret is deleted
unassign_all(p) ==
    {IF ~o.delTs /\ mask_uses_provider(p, o)
     THEN [o EXCEPT !.provider = Nil, !.phase = "Pending"]
     ELSE o : o \in consumers}

\* delete_mask_secret that deletes nothing
delete_mask_secret_none(p) == secrets

delete_mask_secret(p) ==
    {s \in secrets :
        ~\E o \in consumers :
            ~o.delTs /\ mask_uses_provider(p, o) /\ s.name = SecretName(o.name, p.uid)}

ProviderPending(p) ==
    /\ Has(providers, p)
    /\ LET o == Get(providers, p) IN
        /\ provider_determine_action(o) = "Pending"
        /\ providers' = Put(providers, [o EXCEPT !.fin = TRUE, !.phase = "Pending"])
    /\ UNCHANGED <<creds, masks, consumers, reservations, secrets, cpc, cl, budget, pods, rpc>>

\* the MaskConsumers that unassign_all lists and finds assigned to p
Dependents(p) == {o \in consumers : ~o.delTs /\ mask_uses_provider(p, o)}

\* the Delete pass with a call that fails: the calls before it have taken
\* effect, the error leaves the pass and the finalizer is not touched.
\* stage 1: delete_verify_pod fails; 2: delete_verify_mask fails;
\* 3: unassign_all fails, on a patch_status or on a delete of a Secret,
\* after it has gone through some of the MaskConsumers.
ProviderDeleteFails(p) ==
    /\ Has(providers, p)
    /\ LET o == Get(providers, p) IN
        /\ provider_determine_action(o) = "Delete"
        /\ \E stage \in 1..3, patched \in SUBSET Dependents(o) :
            \E cleaned \in SUBSET patched :
                /\ stage < 3 => patched = {}
                /\ stage = 3 => cleaned # Dependents(o)
                /\ Cardinality(patched \ cleaned) <= 1
                /\ pods' = IF stage >= 2 THEN delete_verify_pod(o) ELSE pods
                /\ masks' = IF stage >= 3 THEN delete_verify_mask(o) ELSE masks
                /\ consumers' = {IF x \in patched
                                 THEN [x EXCEPT !.provider = Nil, !.phase = "Pending"]
                                 ELSE x : x \in consumers}
                /\ secrets' = {x \in secrets :
                                ~\E d \in cleaned : x.name = SecretName(d.name, o.uid)}
    /\ UNCHANGED <<providers, creds, reservations, cpc, cl, budget, rpc>>

\* mutant of the Delete pass: the finalizer is removed though unassign_all
\* is not run
ProviderDelete_early(p) ==
    /\ Has(providers, p)
    /\ LET o == Get(providers, p) IN
        /\ provider_determine_action(o) = "Delete"
        /\ pods' = delete_verify_pod(o)
        /\ masks' = delete_verify_mask(o)
        /\ providers' = FinalizerDelete(providers, o)
    /\ UNCHANGED <<creds, consumers, secrets, reservations, cpc, cl, budget, rpc>>

ProviderDelete(p) ==
    /\ Has(providers, p)
    /\ LET o == Get(providers, p) IN
        /\ provider_determine_action(o) = "Delete"
        /\ pods' = delete_verify_pod(o)
        /\ masks' = delete_verify_mask(o)
        /\ consumers' = unassign_all(o)
        /\ secrets' = delete_mask_secret(o)
        /\ providers' = FinalizerDelete(providers, o)
    /\ UNCHANGED <<creds, reservations, cpc, cl, budget, rpc>>

ProviderSecretNotFound(p) ==
    /\ Has(providers, p)
    /\ LET o == Get(providers, p) IN
        /\ provider_determine_action(o) = "SecretNotFound"
        /\ providers' = Put(providers, [o EXCEPT !.phase = "ErrSecretNotFound"])
    /\ UNCHANGED <<creds, masks, consumers, reservations, secrets, cpc, cl, budget, pods, rpc>>

\* CreateVerifyMask: create_verify_mask and verify_progress
ProviderCreateVerifyMask(p) ==
    /\ Has(providers, p)
    /\ LET o == Get(providers, p) IN
        /\ VerifyAction(o, FALSE) = "CreateVerifyMask"
        /\ masks' = masks \cup {verify_mask(o)}
        /\ providers' = Put(providers, [o EXCEPT !.phase = "Verifying"])
    /\ UNCHANGED <<creds, consumers, reservations, secrets, cpc, cl, budget, pods, rpc>>

\* CreateVerifyPod: create_verify_pod for the MaskConsumer of the
\* verification Mask, and verify_progress.  A MaskConsumer that is missing,
\* not assigned or assigned another MaskProvider, and a projected Secret
\* that is missing, are errors that end the pass
ProviderCreateVerifyPod(p) ==
    /\ Has(providers, p)
    /\ LET o == Get(providers, p)
           consumer == get_consumer(Val(get_verify_mask(o))) IN
        /\ VerifyAction(o, FALSE) = "CreateVerifyPod"
        /\ IF /\ consumer # Nil
              /\ Val(consumer).provider # Nil
              /\ Val(Val(consumer).provider).uid = o.uid
              /\ Has(secrets, Val(Val(consumer).provider).secret)
           THEN /\ pods' = pods \cup {verify_pod(o, Val(consumer))}
                /\ providers' = Put(providers, [o EXCEPT !.phase = "Verifying"])
           ELSE UNCHANGED <<providers, pods>>
    /\ UNCHANGED <<creds, masks, consumers, reservations, secrets, cpc, cl, budget, rpc>>

\* Verifying: verify_progress
ProviderVerifying(p) ==
    /\ Has(providers, p)
    /\ LET o == Get(providers, p) IN
        /\ VerifyAction(o, FALSE) = "Verifying"
        /\ providers' = Put(providers, [o EXCEPT !.phase = "Verifying"])
    /\ UNCHANGED <<creds, masks, consumers, reservations, secrets, cpc, cl, budget, pods, rpc>>

\* VerifyFailed: verify_failed, delete_verify_pod, delete_verify_mask
ProviderVerifyFailed(p) ==
    /\ Has(providers, p)
    /\ LET o == Get(providers, p) IN
        /\ \E age \in PodAges :
            VerifyAction(o, pod_too_old(age, get_verify_timeout(o))) = "VerifyFailed"
        /\ providers' = Put(providers, [o EXCEPT !.phase = "ErrVerifyFailed"])
        /\ pods' = delete_verify_pod(o)
        /\ masks' = delete_verify_mask(o)
    /\ UNCHANGED <<creds, consumers, reservations, secrets, cpc, cl, budget, rpc>>

\* Verified: verified, delete_verify_pod, delete_verify_mask
ProviderVerified(p) ==
    /\ Has(providers, p)
    /\ LET o == Get(providers, p) IN
        /\ VerifyAction(o, FALSE) = "Verified"
        /\ providers' = Put(providers, [o EXCEPT !.phase = "Verified", !.lastVerified = TRUE])
        /\ pods' = delete_verify_pod(o)
        /\ masks' = delete_verify_mask(o)
    /\ UNCHANGED <<creds, consumers, reservations, secrets, cpc, cl, budget, rpc>>

\* determine_status_action with ready and active
ProviderStatus(p) ==
    /\ Has(providers, p)
    /\ LET o == Get(providers, p)
           active_slots == count_reservations(o) IN
        /\ provider_determine_action(o) = "Status"
        /\ \E stale \in BOOLEAN :
            IF active_slots > 0
            THEN /\ o.phase # "Active" \/ stale
                 /\ providers' = Put(providers, [o EXCEPT !.phase = "Active",
                                                          !.activeSlots = Some(active_slots)])
            ELSE /\ o.phase # "Ready" \/ stale
                 /\ providers' = Put(providers, [o EXCEPT !.phase = "Ready",
                                                          !.activeSlots = Some(0)])
    /\ UNCHANGED <<creds, masks, consumers, reservations, secrets, cpc, cl, budget, pods, rpc>>

(***************************************************************************)
(* The system: the four controllers run as processes of their own          *)
(* (main.rs), beside the garbage collector and the user.                   *)
(***************************************************************************)
Environment ==
    \/ \E p \in ProviderNames, n \in 1..MaxSlotsBound : CreateProvider(p, n)
    \/ \E p \in ProviderNames : CreateProviderSecret(p, "d1")
    \/ \E p \in ProviderNames : DeleteProvider(p)
    \/ \E m \in MaskNames, tag \in Tags : CreateMask(m, tag)
    \/ \E m \in MaskNames : DeleteMask(m)

GarbageCollector ==
    \/ \E c \in MaskNames : CollectConsumer(c)
    \/ \E n \in ReservationNames : CollectReservation(n)
    \/ \E c \in MaskNames : CollectSecret(c)

MaskReconciler(m) ==
    \/ MaskDelete(m)
    \/ MaskPending(m)
    \/ MaskCreateConsumer(m)
    \/ MaskMirror(m)

ConsumerReconciler(c) ==
    \/ ConsumerDelete(c)
    \/ ConsumerSelfDelete(c)
    \/ ConsumerPending(c)
    \/ ConsumerCreateSecret(c)
    \/ ConsumerActive(c)
    \/ AssignStart(c)
    \/ AssignNoProviders(c)
    \/ AssignScan(c)
    \/ AssignCreate(c)
    \/ AssignPatch(c)
    \/ AssignPruneList(c)
    \/ AssignCheckPrune(c)
    \/ AssignPruneDelete(c)
    \/ AssignRelist(c)
    \/ AssignWaiting(c)

ReservationReconciler(n) ==
    \/ ReservationPending(n)
    \/ ReservationDelete(n)
    \/ ReservationDeleteConsumer(n)
    \/ ReservationSelfDelete(n)
    \/ ReservationActive(n)

ProviderReconciler(p) ==
    \/ ProviderPending(p)
    \/ ProviderDelete(p)
    \/ ProviderSecretNotFound(p)
    \/ ProviderStatus(p)

Operator ==
    \/ \E m \in MaskNames : MaskReconciler(m)
    \/ \E c \in MaskNames : ConsumerReconciler(c)
    \/ \E n \in ReservationNames : ReservationReconciler(n)
    \/ \E p \in ProviderNames : ProviderReconciler(p)

Next ==
    \/ Environment
    \/ GarbageCollector
    \/ Operator

Spec == Init /\ [][Next]_vars

(***************************************************************************)
(* The operator under the drivers of its tests (test/basic.rs,             *)
(* test/waiting.rs, test/err_no_providers.rs): the MaskProvider and its    *)
(* credential Secret, the Mask 0 at any moment, the Mask 1 once the Mask 0 *)
(* has its assignment and its Secret, and then either the Mask 0 is        *)
(* deleted, once the Mask 1 is seen Waiting, or the MaskProvider is.       *)
(***************************************************************************)
\* test/util.rs MAX_SLOTS
MAX_SLOTS == 1

\* wait_for_provider_assignment and wait_for_secret have returned for Mask c
HoldsSlot(c) ==
    /\ Has(consumers, c)
    /\ Get(consumers, c).provider # Nil
    /\ Has(secrets, Val(Get(consumers, c).provider).secret)

\* wait_for_mask_phase has returned for Mask m
SeenPhase(m, phase) == Has(masks, m) /\ Get(masks, m).phase = phase

\* a test creates each of its objects once
FirstMask(m) == budget.maskCreates[m] = MaxMaskCreates

FirstProvider(p) == budget.providerCreates[p] = MaxProviderCreates

\* the Mask whose MaskConsumer holds the slot is in the store, not deleted
Holder(c) == HoldsSlot(c) /\ Has(masks, c) /\ ~Get(masks, c).delTs

TestDriver ==
    \/ \E p \in ProviderNames : FirstProvider(p) /\ CreateProvider(p, MAX_SLOTS)
    \/ \E p \in ProviderNames, d \in SecretData :
            Has(providers, p) /\ CreateProviderSecret(p, d)
    \/ \E tag \in Tags : FirstMask("m0") /\ CreateMask("m0", tag)
    \/ \E tag \in Tags : FirstMask("m1") /\ HoldsSlot("m0") /\ CreateMask("m1", tag)
    \/ SeenPhase("m1", "Waiting") /\ DeleteMask("m0")
    \/ \E p \in ProviderNames, c \in MaskNames : Holder(c) /\ DeleteProvider(p)

TestNext ==
    \/ TestDriver
    \/ GarbageCollector
    \/ Operator

\* every controller keeps reconciling each of its objects, and the garbage
\* collector keeps collecting
Fairness ==
    /\ \A m \in MaskNames :
        /\ WF_vars(MaskReconciler(m))
        /\ WF_vars(ConsumerReconciler(m))
        /\ WF_vars(CollectConsumer(m))
        /\ WF_vars(CollectSecret(m))
    /\ \A n \in ReservationNames :
        /\ WF_vars(ReservationReconciler(n))
        /\ WF_vars(CollectReservation(n))
    /\ \A p \in ProviderNames : WF_vars(ProviderReconciler(p))

FairTest == Init /\ [][TestNext]_vars /\ Fairness

(***************************************************************************)
(* The operator under the delete-recreate scenario: the MaskProvider of    *)
(* the tests is deleted while the Mask 0 holds its slot and is created     *)
(* again under its name; the Mask 1 follows as in test/waiting.rs.         *)
(***************************************************************************)
RecreateInit ==
    /\ providers = {}
    /\ creds = [p \in AllProviderNames |-> None]
    /\ masks = {}
    /\ consumers = {}
    /\ reservations = {}
    /\ secrets = {}
    /\ cpc = [c \in AllMaskNames |-> "idle"]
    /\ cl = [c \in AllMaskNames |-> NoLocals]
    /\ budget = [maskCreates |-> [m \in MaskNames |-> MaxMaskCreates],
                 providerCreates |-> [p \in ProviderNames |-> MaxProviderCreates + 1],
                 deletes |-> MaxDeletes + 1]
    /\ pods = {}
    /\ rpc = [n \in ReservationNames |-> "idle"]

\* the MaskProvider of name p has been created again
Recreated(p) == budget.providerCreates[p] < MaxProviderCreates

RecreateDriver ==
    \/ \E p \in ProviderNames : CreateProvider(p, MAX_SLOTS)
    \/ \E p \in ProviderNames : Has(providers, p) /\ CreateProviderSecret(p, "d1")
    \/ FirstMask("m0") /\ CreateMask("m0", "t")
    \/ \E p \in ProviderNames, c \in MaskNames : Holder(c) /\ DeleteProvider(p)
    \/ \E p \in ProviderNames :
            FirstMask("m1") /\ Recreated(p) /\ HoldsSlot("m0") /\ CreateMask("m1", "t")
    \/ SeenPhase("m1", "Waiting") /\ DeleteMask("m0")

RecreateNext ==
    \/ RecreateDriver
    \/ GarbageCollector
    \/ Operator

FairRecreate == RecreateInit /\ [][RecreateNext]_vars /\ Fairness

(***************************************************************************)
(* The verification of a MaskProvider: the MaskProvider of the tests,      *)
(* created with spec.verify.skip or without it, its credential Secret, the *)
(* verification Mask and its MaskConsumer, and the verification Pod, whose *)
(* status is written by the kubelet.                                       *)
(***************************************************************************)
\* a MaskProvider that asks for its verification (spec.verify unset)
CreateProviderVerify(p, n) ==
    /\ ~Has(providers, p)
    /\ budget.providerCreates[p] > 0
    /\ providers' = providers \cup
            {[name |-> p, ns |-> "a", uid |-> FreshUid(p, ProviderUidsInUse),
              maxSlots |-> n, tags |-> {"t"}, namespaces |-> Some({"a"}),
              skip |-> FALSE, fin |-> FALSE, delTs |-> FALSE,
              phase |-> None, activeSlots |-> Nil, lastVerified |-> FALSE]}
    /\ budget' = [budget EXCEPT !.providerCreates[p] = @ - 1]
    /\ UNCHANGED <<creds, masks, consumers, reservations, secrets, cpc, cl, pods, rpc>>

\* the kubelet writes the status of the Pod n, and removes a Pod that is
\* being deleted once its containers have stopped
SetPod(n, f, v) ==
    /\ pods' = {IF x.name = n THEN [x EXCEPT ![f] = v] ELSE x : x \in pods}
    /\ UNCHANGED <<providers, creds, masks, consumers, reservations, secrets, cpc, cl, budget, rpc>>

PodUnschedulable(n) ==
    /\ \E x \in pods : x.name = n /\ x.phase = "Pending" /\ check_pod_scheduling_error(x) = Nil
    /\ SetPod(n, "conditions",
            <<[type |-> "PodScheduled", status |-> "False", message |-> Some("unschedulable")]>>)

PodRunning(n) ==
    /\ \E x \in pods : x.name = n /\ x.phase = "Pending" /\ check_pod_scheduling_error(x) = Nil
    /\ SetPod(n, "phase", "Running")

PodProbeSucceeded(n) ==
    /\ \E x \in pods : x.name = n /\ x.phase = "Running" /\ ~is_probe_successful(x)
    /\ SetPod(n, "containers",
            <<[name |-> VPN_CONTAINER_NAME, running |-> TRUE, terminated |-> Nil],
              [name |-> PROBE_CONTAINER_NAME, running |-> FALSE, terminated |-> Some(0)]>>)

PodSucceeded(n) ==
    /\ \E x \in pods : x.name = n /\ x.phase = "Running" /\ ~is_probe_successful(x)
    /\ SetPod(n, "phase", "Succeeded")

PodFailed(n) ==
    /\ \E x \in pods : x.name = n /\ x.phase = "Running" /\ ~is_probe_successful(x)
    /\ SetPod(n, "phase", "Failed")

PodTerminated(n) ==
    /\ \E x \in pods : x.name = n /\ x.delTs
    /\ pods' = {x \in pods : x.name # n}
    /\ UNCHANGED <<providers, creds, masks, consumers, reservations, secrets, cpc, cl, budget, rpc>>

\* the garbage collector deletes the Pod whose MaskConsumer is gone (the
\* verification Mask is deleted by the pass that lets its MaskProvider go)
CollectPod(n) ==
    /\ \E x \in pods : x.name = n /\ ~x.delTs /\ x.owner \notin {o.uid : o \in consumers}
    /\ SetPod(n, "delTs", TRUE)

VerifyEnvironment ==
    \/ \E p \in ProviderNames : CreateProvider(p, MAX_SLOTS)
    \/ \E p \in ProviderNames : CreateProviderVerify(p, MAX_SLOTS)
    \/ \E p \in ProviderNames : CreateProviderSecret(p, "d1")
    \/ \E p \in ProviderNames : DeleteProvider(p)

Kubelet(n) ==
    \/ PodUnschedulable(n)
    \/ PodRunning(n)
    \/ PodProbeSucceeded(n)
    \/ PodSucceeded(n)
    \/ PodFailed(n)
    \/ PodTerminated(n)

VerifyGarbageCollector ==
    \/ \E c \in VerifyMaskNames : CollectConsumer(c)
    \/ \E n \in ReservationNames : CollectReservation(n)
    \/ \E c \in VerifyMaskNames : CollectSecret(c)
    \/ \E p \in ProviderNames : CollectPod(p)

\* the passes of the MaskConsumer of a verification Mask
VerifyConsumerReconciler(c) ==
    \/ ConsumerDelete(c)
    \/ ConsumerSelfDelete(c)
    \/ ConsumerPending(c)
    \/ ConsumerCreateSecret(c)
    \/ ConsumerActive(c)
    \/ AssignVerifyStart(c)
    \/ AssignScan(c)
    \/ AssignCreate(c)
    \/ AssignPatch(c)
    \/ AssignCheckPrune(c)
    \/ AssignPruneDelete(c)
    \/ AssignWaiting(c)

\* the passes of a MaskProvider that may ask for its verification
VerifyProviderReconciler(p) ==
    \/ ProviderReconciler(p)
    \/ ProviderCreateVerifyMask(p)
    \/ ProviderCreateVerifyPod(p)
    \/ ProviderVerifying(p)
    \/ ProviderVerifyFailed(p)
    \/ ProviderVerified(p)

VerifyOperator ==
    \/ \E m \in VerifyMaskNames : MaskReconciler(m)
    \/ \E c \in VerifyMaskNames : VerifyConsumerReconciler(c)
    \/ \E n \in ReservationNames : ReservationReconciler(n)
    \/ \E p \in ProviderNames : VerifyProviderReconciler(p)

VerifyNext ==
    \/ VerifyEnvironment
    \/ \E p \in ProviderNames : Kubelet(p)
    \/ VerifyGarbageCollector
    \/ VerifyOperator

VerifySpec == Init /\ [][VerifyNext]_vars

(***************************************************************************)
(* The verification that succeeds: the credential Secret exists before the *)
(* MaskProvider is created without spec.verify.skip, every slot is free,   *)
(* the Pod is scheduled, its probe succeeds before the timeout, and nobody *)
(* deletes the MaskProvider.                                               *)
(***************************************************************************)
SuccessEnvironment ==
    \/ \E p \in ProviderNames : CreateProviderSecret(p, "d1")
    \/ \E p \in ProviderNames : creds[p] # None /\ CreateProviderVerify(p, MAX_SLOTS)

SuccessKubelet(n) ==
    \/ PodRunning(n)
    \/ PodProbeSucceeded(n)
    \/ PodTerminated(n)

SuccessGarbageCollector ==
    \/ \E c \in VerifyMaskNames : CollectConsumer(c)
    \/ \E c \in VerifyMaskNames : CollectSecret(c)
    \/ \E p \in ProviderNames : CollectPod(p)

\* the passes of the MaskConsumer of the verification Mask that finds a
\* free slot
SuccessConsumerReconciler(c) ==
    \/ ConsumerDelete(c)
    \/ ConsumerPending(c)
    \/ ConsumerCreateSecret(c)
    \/ ConsumerActive(c)
    \/ AssignVerifyStart(c)
    \/ AssignScan(c)
    \/ AssignCreate(c)
    \/ AssignPatch(c)

SuccessReservationReconciler(n) ==
    \/ ReservationPending(n)
    \/ ReservationActive(n)
    \/ ReservationSelfDelete(n)

\* the passes of the MaskProvider whose verification meets no error
SuccessProviderReconciler(p) ==
    \/ ProviderPending(p)
    \/ ProviderStatus(p)
    \/ ProviderCreateVerifyMask(p)
    \/ ProviderCreateVerifyPod(p)
    \/ ProviderVerifying(p)
    \/ ProviderVerified(p)

SuccessOperator ==
    \/ \E m \in VerifyMaskNames : MaskReconciler(m)
    \/ \E c \in VerifyMaskNames : SuccessConsumerReconciler(c)
    \/ \E n \in ReservationNames : SuccessReservationReconciler(n)
    \/ \E p \in ProviderNames : SuccessProviderReconciler(p)

SuccessNext ==
    \/ SuccessEnvironment
    \/ \E p \in ProviderNames : SuccessKubelet(p)
    \/ SuccessGarbageCollector
    \/ SuccessOperator

\* every controller keeps reconciling, the kubelet keeps running the Pod and
\* the garbage collector keeps collecting
SuccessFairness ==
    /\ WF_vars(SuccessEnvironment)
    /\ \A m \in VerifyMaskNames :
        /\ WF_vars(MaskReconciler(m))
        /\ WF_vars(SuccessConsumerReconciler(m))
        /\ WF_vars(CollectConsumer(m))
        /\ WF_vars(CollectSecret(m))
    /\ \A n \in ReservationNames : WF_vars(SuccessReservationReconciler(n))
    /\ \A p \in ProviderNames :
        /\ WF_vars(SuccessProviderReconciler(p))
        /\ WF_vars(SuccessKubelet(p))
        /\ WF_vars(CollectPod(p))

FairVerify == Init /\ [][SuccessNext]_vars /\ SuccessFairness

(***************************************************************************)
(* The allocation on its own: the passes of assign_provider of two         *)
(* MaskConsumers over every kind of MaskProvider.  The state it starts in  *)
(* has the MaskProvider p in any phase, with or without tags, namespaces,  *)
(* slots and deletion timestamp, and may have a second MaskProvider q that *)
(* is Ready; the MaskConsumer m0 lives in either namespace and names the   *)
(* tags it wants or none, the MaskConsumer m1 takes any MaskProvider.  A   *)
(* MaskReservation left behind by a MaskConsumer that is gone may hold the *)
(* slot 0 of p.                                                            *)
(***************************************************************************)
\* types/src/provider.rs MaskProviderPhase
ProviderPhases ==
    {"Pending", "Verifying", "Verified", "Ready", "Active", "Terminating",
     "ErrSecretNotFound", "ErrVerifyFailed"}

\* the status that the phase comes with (ready, active)
StatusOf(phase) ==
    CASE phase = "Ready" -> Some(0)
      [] phase = "Active" -> Some(1)
      [] OTHER -> Nil

AllocProvider(name, n, tags, namespaces, phase, delTs) ==
    [name |-> name, ns |-> "a", uid |-> FreshUid(name, {}),
     maxSlots |-> n, tags |-> tags, namespaces |-> namespaces,
     skip |-> TRUE, fin |-> TRUE, delTs |-> delTs,
     phase |-> phase, activeSlots |-> StatusOf(phase), lastVerified |-> FALSE]

AllocMask(m, ns, filter) ==
    [name |-> m, ns |-> ns, uid |-> FreshUid(m, {}),
     providers |-> filter, verify |-> Nil, owner |-> Nil,
     fin |-> TRUE, delTs |-> FALSE, phase |-> "Waiting"]

AllocConsumer(m, ns, filter) ==
    [name |-> m, ns |-> ns, uid |-> FreshUid(m, {}),
     owner |-> FreshUid(m, {}), providers |-> filter, verify |-> Nil,
     fin |-> TRUE, delTs |-> FALSE, phase |-> "Pending", provider |-> Nil]

\* a MaskReservation of slot 0 whose MaskConsumer has left the store
DanglingReservation(p) ==
    [name |-> ReservationName(p.name, 0), ns |-> p.ns,
     uid |-> FreshUid(ReservationName(p.name, 0), {}),
     owner |-> p.uid, spec |-> [name |-> "m0", uid |-> Gone(FreshUid("m0", {}))],
     fin |-> FALSE, delTs |-> FALSE, phase |-> None]

AllocInit ==
    /\ \E n \in 0..MaxSlotsBound, tags \in {{}, {"t"}}, namespaces \in {Nil, Some({"a"})},
          phase \in ProviderPhases, delTs \in BOOLEAN, second \in BOOLEAN,
          dangling \in BOOLEAN :
        LET p == AllocProvider(<<"p">>, n, tags, namespaces, phase, delTs)
            q == AllocProvider(<<"q">>, MAX_SLOTS, {"t"}, Nil, "Ready", FALSE) IN
        /\ providers = IF second THEN {p, q} ELSE {p}
        /\ dangling => n > 0
        /\ reservations = IF dangling THEN {DanglingReservation(p)} ELSE {}
    /\ \E ns \in Namespaces, filter \in {Nil, Some({}), Some({"t"})} :
        /\ masks = {AllocMask("m0", ns, filter), AllocMask("m1", "a", Nil)}
        /\ consumers = {AllocConsumer("m0", ns, filter), AllocConsumer("m1", "a", Nil)}
    /\ creds = [p \in AllProviderNames |-> "d1"]
    /\ secrets = {}
    /\ cpc = [c \in AllMaskNames |-> "idle"]
    /\ cl = [c \in AllMaskNames |-> NoLocals]
    /\ budget = [maskCreates |-> [m \in MaskNames |-> 0],
                 providerCreates |-> [p \in ProviderNames |-> 0],
                 deletes |-> 0]
    /\ pods = {}
    /\ rpc = [n \in ReservationNames |-> "idle"]

\* the steps of assign_provider
assign_provider(c) ==
    \/ AssignStart(c)
    \/ AssignNoProviders(c)
    \/ AssignScan(c)
    \/ AssignCreate(c)
    \/ AssignPatch(c)
    \/ AssignPruneList(c)
    \/ AssignCheckPrune(c)
    \/ AssignPruneDelete(c)
    \/ AssignRelist(c)
    \/ AssignWaiting(c)

AllocNext == \E c \in MaskNames : assign_provider(c)

AllocSpec == AllocInit /\ [][AllocNext]_vars

\* the controller runs every pass it has started to its end, and starts the
\* next
FairAlloc == AllocSpec /\ \A c \in MaskNames : WF_vars(assign_provider(c))

(***************************************************************************)
(* The allocation beside a stale status: the MaskProvider p is in any      *)
(* phase, and as Active it publishes one active slot while none of its     *)
(* slots is reserved; the MaskProvider q is Ready and its only slot is     *)
(* held by the MaskConsumer m0, or free; the MaskConsumer m1 has no        *)
(* assignment.  The user deletes a MaskProvider at any moment.             *)
(***************************************************************************)
\* the assignment of the MaskConsumer c to slot 0 of the MaskProvider q
HeldReservation(c, q) ==
    [name |-> ReservationName(q.name, 0), ns |-> q.ns,
     uid |-> FreshUid(ReservationName(q.name, 0), {}),
     owner |-> q.uid, spec |-> [name |-> c, uid |-> FreshUid(c, {})],
     fin |-> TRUE, delTs |-> FALSE, phase |-> "Active"]

HeldAssignment(c, q) ==
    Some([name |-> q.name, uid |-> q.uid, slot |-> 0,
          reservation |-> FreshUid(ReservationName(q.name, 0), {}),
          secret |-> SecretName(c, q.uid)])

StaleInit ==
    /\ \E n \in 1..MaxSlotsBound, phase \in ProviderPhases, held \in BOOLEAN :
        LET p == AllocProvider(<<"p">>, n, {"t"}, Nil, phase, FALSE)
            q == AllocProvider(<<"q">>, MAX_SLOTS, {"t"}, Nil, "Ready", FALSE) IN
        /\ providers = {p, q}
        /\ reservations = IF held THEN {HeldReservation("m0", q)} ELSE {}
        /\ consumers =
            {[AllocConsumer("m0", "a", Nil) EXCEPT
                !.provider = IF held THEN HeldAssignment("m0", q) ELSE Nil],
             AllocConsumer("m1", "a", Nil)}
    /\ masks = {AllocMask("m0", "a", Nil), AllocMask("m1", "a", Nil)}
    /\ creds = [p \in AllProviderNames |-> "d1"]
    /\ secrets = {}
    /\ cpc = [c \in AllMaskNames |-> "idle"]
    /\ cl = [c \in AllMaskNames |-> NoLocals]
    /\ budget = [maskCreates |-> [m \in MaskNames |-> 0],
                 providerCreates |-> [p \in ProviderNames |-> 0],
                 deletes |-> MaxDeletes]
    /\ pods = {}
    /\ rpc = [n \in ReservationNames |-> "idle"]

StaleNext ==
    \/ \E c \in MaskNames : assign_provider(c)
    \/ \E p \in AllProviderNames : DeleteProvider(p)

StaleSpec == StaleInit /\ [][StaleNext]_vars

(***************************************************************************)
(* The slot scan over names of every shape: the MaskProvider p has a name  *)
(* with or without a '-' and digits, and one, two or SlotScanBound slots,  *)
(* some of which are reserved for a MaskConsumer that has left the store;  *)
(* beside them the store may hold a MaskReservation that p owns and whose  *)
(* name does not end in a number.  A second MaskProvider of another name   *)
(* has its only slot reserved.  Two MaskConsumers have no assignment.      *)
(***************************************************************************)
SlotProviderNames == {<<"p">>, <<"p", "-", "1">>, <<"1", "0">>, <<"p", "1", "-", "q">>}

\* the largest maxSlots of the scan: slot numbers of two digits
SlotScanBound == 11

\* the MaskProvider beside the one of the name
SlotNeighbour(name) ==
    CASE name = <<"p">> -> <<"p", "-", "1">>
      [] name = <<"p", "-", "1">> -> <<"p">>
      [] name = <<"1", "0">> -> <<"p", "1", "-", "q">>
      [] OTHER -> <<"1", "0">>

\* a MaskReservation of the slot, whose MaskConsumer has left the store
SlotReservation(p, slot) ==
    [DanglingReservation(p) EXCEPT
        !.name = ReservationName(p.name, slot),
        !.uid = FreshUid(ReservationName(p.name, slot), {})]

\* a MaskReservation that the MaskProvider owns, of a name that
\* create_reservation does not format
MalformedReservation(p) ==
    [DanglingReservation(p) EXCEPT
        !.name = p.name \o <<"-", "x">>,
        !.uid = FreshUid(p.name \o <<"-", "x">>, {})]

SlotInit ==
    /\ \E name \in SlotProviderNames, n \in {1, 2, SlotScanBound},
          taken \in SUBSET {0, 1, SlotScanBound - 1}, malformed \in BOOLEAN,
          filter \in {Nil, Some({"t"}), Some({"u"})} :
        LET p == AllocProvider(name, n, {"t"}, Nil, "Ready", FALSE)
            q == AllocProvider(SlotNeighbour(name), MAX_SLOTS, {}, Nil, "Ready", FALSE) IN
        /\ taken \subseteq 0..(n - 1)
        /\ providers = {p, q}
        /\ reservations = {SlotReservation(p, i) : i \in taken}
                            \cup {HeldReservation("h", q)}
                            \cup (IF malformed THEN {MalformedReservation(p)} ELSE {})
        /\ masks = {AllocMask("m0", "a", filter), AllocMask("m1", "a", Nil)}
        /\ consumers =
            {AllocConsumer("m0", "a", filter), AllocConsumer("m1", "a", Nil),
             [AllocConsumer("h", "a", Nil) EXCEPT
                !.phase = "Active", !.provider = HeldAssignment("h", q)]}
    /\ creds = [p \in AllProviderNames |-> "d1"]
    /\ secrets = {}
    /\ cpc = [c \in AllMaskNames |-> "idle"]
    /\ cl = [c \in AllMaskNames |-> NoLocals]
    /\ budget = [maskCreates |-> [m \in MaskNames |-> 0],
                 providerCreates |-> [p \in ProviderNames |-> 0],
                 deletes |-> 0]
    /\ pods = {}
    /\ rpc = [n \in ReservationNames |-> "idle"]

SlotSpec == SlotInit /\ [][AllocNext]_vars

(***************************************************************************)
(* Reconcile actions that run again.  A pass works on the instance that    *)
(* the controller hands it, which may be older than the object of the      *)
(* store, and a pass that was cancelled or has failed is run again: an     *)
(* action then runs on an object that is already in the state the action   *)
(* leads to.  One MaskProvider p is Ready; two MaskConsumers start as the   *)
(* Mask reconciler creates them: they compete for the slot of p if it has  *)
(* one, and p is eligible for m0 alone if it has more.                     *)
(***************************************************************************)
\* ConsumerAction::Pending on a MaskConsumer that is Pending with its
\* finalizer
PendingAgain(c) ==
    /\ Idle(c)
    /\ LET o == Get(consumers, c) IN
        /\ o.fin /\ o.phase = "Pending"
        /\ consumers' = Put(consumers, [o EXCEPT !.fin = TRUE, !.phase = "Pending"])
    /\ UNCHANGED <<providers, creds, masks, reservations, secrets, cpc, cl, budget, pods, rpc>>

\* ConsumerAction::Assign on a MaskConsumer that has its assignment:
\* assign_provider does not read status.provider
AssignAgain(c) ==
    /\ Idle(c)
    /\ LET o == Get(consumers, c)
           all == list_active_providers(o.providers, o.ns)
           first == SeqOf({Snap(p) : p \in {q \in all : BelowCapacity(q)}}) IN
        /\ ~o.delTs
        /\ get_assigned_provider(o) # Nil
        /\ get_reservation(Val(o.provider)) # Nil
        /\ o.verify = Nil
        /\ IF all = {}
           THEN Goto(c, <<"noproviders", [NoLocals EXCEPT !.uid = o.uid, !.ns = o.ns]>>)
           ELSE Goto(c, AfterScan([NoLocals EXCEPT !.uid = o.uid, !.ns = o.ns, !.provs = first,
                                    !.first = Len(first), !.pass = 1]))
    /\ UNCHANGED <<providers, creds, masks, consumers, reservations, secrets, budget, pods, rpc>>

\* ConsumerAction::CreateSecret on a MaskConsumer that has its projected
\* Secret: the create is answered 409 Conflict, which ends the pass
CreateSecretAgain(c) ==
    /\ Idle(c)
    /\ LET o == Get(consumers, c) IN
        /\ o.provider # Nil
        /\ get_secret(o.name, Val(o.provider)) # Nil
    /\ UNCHANGED vars

\* ConsumerAction::Active on a MaskConsumer that is Active
ActiveAgain(c) ==
    /\ Idle(c)
    /\ LET o == Get(consumers, c) IN
        /\ o.phase = "Active"
        /\ consumers' = Put(consumers, [o EXCEPT !.phase = "Active"])
    /\ UNCHANGED <<providers, creds, masks, reservations, secrets, cpc, cl, budget, pods, rpc>>

\* ConsumerAction::Delete on a MaskConsumer that has left the store: the
\* patch of the status is answered 404 Not Found, which ends the pass
DeleteAgain(c) ==
    /\ cpc[c] = "idle"
    /\ ~Has(consumers, c)
    /\ UNCHANGED vars

\* ReservationAction::Pending on a MaskReservation that is Pending with its
\* finalizer
ReservationPendingAgain(n) ==
    /\ ReservationIdle(n)
    /\ LET r == Get(reservations, n) IN
        /\ r.fin /\ r.phase = "Pending"
        /\ reservations' = Put(reservations, [r EXCEPT !.fin = TRUE, !.phase = "Pending"])
    /\ UNCHANGED <<providers, creds, masks, consumers, secrets, cpc, cl, budget, pods, rpc>>

\* ReservationAction::Active on a MaskReservation that is Active
ReservationActiveAgain(n) ==
    /\ ReservationIdle(n)
    /\ LET r == Get(reservations, n) IN
        /\ r.phase = "Active"
        /\ reservations' = Put(reservations, [r EXCEPT !.phase = "Active"])
    /\ UNCHANGED <<providers, creds, masks, consumers, secrets, cpc, cl, budget, pods, rpc>>

\* ReservationAction::Delete on a MaskReservation that has left the store:
\* the patch of the status is answered 404 Not Found, which ends the pass
ReservationDeleteAgain(n) ==
    /\ rpc[n] = "idle"
    /\ ~Has(reservations, n)
    /\ UNCHANGED vars

RerunInit ==
    /\ \E n \in 1..MaxSlotsBound :
        LET filter == IF n = 1 THEN Nil ELSE Some({"u"}) IN
        /\ providers = {AllocProvider(<<"p">>, n, {"t"}, Nil, "Ready", FALSE)}
        /\ masks = {AllocMask("m0", "a", Nil), AllocMask("m1", "a", filter)}
        /\ consumers =
            {[AllocConsumer("m0", "a", Nil) EXCEPT !.fin = FALSE, !.phase = None],
             [AllocConsumer("m1", "a", filter) EXCEPT !.fin = FALSE, !.phase = None]}
    /\ reservations = {}
    /\ creds = [p \in AllProviderNames |-> "d1"]
    /\ secrets = {}
    /\ cpc = [c \in AllMaskNames |-> "idle"]
    /\ cl = [c \in AllMaskNames |-> NoLocals]
    /\ budget = [maskCreates |-> [m \in MaskNames |-> 0],
                 providerCreates |-> [p \in ProviderNames |-> 0],
                 deletes |-> 0]
    /\ pods = {}
    /\ rpc = [n \in ReservationNames |-> "idle"]

ConsumerAgain(c) ==
    \/ PendingAgain(c)
    \/ AssignAgain(c)
    \/ CreateSecretAgain(c)
    \/ ActiveAgain(c)
    \/ DeleteAgain(c)

ReservationAgain(n) ==
    \/ ReservationPendingAgain(n)
    \/ ReservationActiveAgain(n)
    \/ ReservationDeleteAgain(n)

RerunNext ==
    \/ \E c \in MaskNames : ConsumerReconciler(c)
    \/ \E c \in MaskNames : ConsumerAgain(c)
    \/ \E n \in ReservationNames : ReservationReconciler(n)
    \/ \E n \in ReservationNames : ReservationAgain(n)

RerunSpec == RerunInit /\ [][RerunNext]_vars

(***************************************************************************)
(* The classification of the verification Pod: the MaskProvider p is       *)
(* Verifying, its verification Mask is Active and assigned to it, and the  *)
(* verification Pod has any status that the kubelet can report: a phase,   *)
(* the container statuses of the VPN container and of the probe, and the   *)
(* conditions of the Pod.                                                  *)
(***************************************************************************)
PodPhases == {"Pending", "Running", "Succeeded", "Failed", "Unknown"}

\* the statuses of one container: none, running, waiting, exited with 0 or 1
ContainerStatuses(name) ==
    {<<>>} \cup
    {<<[name |-> name, running |-> r, terminated |-> t]>> :
        <<r, t>> \in {<<TRUE, Nil>>, <<FALSE, Nil>>, <<FALSE, Some(0)>>, <<FALSE, Some(1)>>}}

PodConditions ==
    {<<>>,
     <<[type |-> "PodScheduled", status |-> "True", message |-> Nil]>>,
     <<[type |-> "PodScheduled", status |-> "False", message |-> Some("unschedulable")]>>,
     <<[type |-> "PodScheduled", status |-> "False", message |-> Nil]>>,
     <<[type |-> "Ready", status |-> "False", message |-> Some("not ready")],
       [type |-> "PodScheduled", status |-> "False", message |-> Some("no nodes")]>>}

PodInit ==
    /\ LET p == [AllocProvider(<<"p">>, MAX_SLOTS, {"t"}, Nil, "Verifying", FALSE)
                    EXCEPT !.skip = FALSE]
           m == [AllocMask(get_verify_mask_name(p.name), "a", Nil) EXCEPT
                    !.verify = Some(p.uid), !.owner = Some(p.uid), !.phase = "Active"]
           o == [AllocConsumer(m.name, "a", Nil) EXCEPT
                    !.owner = m.uid, !.verify = Some(p.uid), !.phase = "Active",
                    !.provider = HeldAssignment(m.name, p)] IN
        /\ providers = {p}
        /\ masks = {m}
        /\ consumers = {o}
        /\ reservations = {HeldReservation(m.name, p)}
        /\ secrets = {[name |-> SecretName(m.name, p.uid), owner |-> o.uid,
                        label |-> p.uid, data |-> "d1"]}
        /\ \E phase \in PodPhases, vpn \in ContainerStatuses(VPN_CONTAINER_NAME),
              probe \in ContainerStatuses(PROBE_CONTAINER_NAME), conditions \in PodConditions :
            pods = {[verify_pod(p, o) EXCEPT !.phase = phase, !.containers = vpn \o probe,
                                             !.conditions = conditions]}
    /\ creds = [p \in AllProviderNames |-> "d1"]
    /\ cpc = [c \in AllMaskNames |-> "idle"]
    /\ cl = [c \in AllMaskNames |-> NoLocals]
    /\ budget = [maskCreates |-> [m \in MaskNames |-> 0],
                 providerCreates |-> [p \in ProviderNames |-> 0],
                 deletes |-> 0]
    /\ rpc = [n \in ReservationNames |-> "idle"]

PodNext ==
    \E p \in ProviderNames :
        \/ ProviderVerifying(p)
        \/ ProviderVerifyFailed(p)
        \/ ProviderVerified(p)

PodSpec == PodInit /\ [][PodNext]_vars

(***************************************************************************)
(* Properties.                                                             *)
(***************************************************************************)
\* the MaskConsumer a MaskReservation is paired with is in the store S
Paired(S, r) == \E o \in S : o.name = r.spec.name /\ o.uid = r.spec.uid

OwnedBy(p) == {r \in reservations : r.owner = p.uid}

\* C1: in every reachable state, each MaskProvider owns at most maxSlots
\* MaskReservations, whatever the interleaving of the allocation attempts.
C1_SlotBound ==
    \A p \in providers : Cardinality(OwnedBy(p)) <= p.maxSlots

\* every slot of a MaskProvider is reserved while a MaskConsumer, whose list
\* of free slots is stale, is about to create a MaskReservation for it
C1_Witness ==
    \E p \in providers :
        /\ Cardinality(OwnedBy(p)) = p.maxSlots
        /\ \E c \in MaskNames : cpc[c] = "create" /\ Head(cl[c].provs).uid = p.uid

\* o holds an assignment and is in phase Active
ActiveOn(o) == o.phase = "Active" /\ o.provider # Nil

\* C2: slot mutual exclusion: the store holds at most one MaskReservation of
\* a name, and no two MaskConsumers are Active at the same time with an
\* assignment that names the same MaskProvider uid and the same slot.
C2_MutualExclusion ==
    /\ \A r1, r2 \in reservations : r1.name = r2.name => r1 = r2
    /\ \A o1, o2 \in consumers :
        (/\ ActiveOn(o1) /\ ActiveOn(o2)
         /\ Val(o1.provider).uid = Val(o2.provider).uid
         /\ Val(o1.provider).slot = Val(o2.provider).slot) => o1 = o2

\* C3: finalizer safety: no step removes a MaskReservation from the store
\* while the MaskConsumer it is paired with exists, whatever deletes it.
C3_FinalizerSafety ==
    [][\A r \in reservations :
          (~\E x \in reservations' : x.name = r.name /\ x.uid = r.uid)
              => ~(Paired(consumers, r) /\ Paired(consumers', r))]_vars

\* no pass of the MaskConsumer o is running and its next pass is a NoOp, or
\* an allocation attempt when it has no assignment
ConsumerQuiet(o) ==
    /\ cpc[o.name] = "idle"
    /\ \/ determine_action(o) = "Status" /\ o.phase = "Active"
       \/ determine_action(o) = "Assign" /\ o.phase \in {"Waiting", "ErrNoProviders"}

ReservationQuiet(r) == reservation_determine_action(r) = "Status" /\ r.phase = "Active"

ProviderQuiet(p) ==
    \/ provider_determine_action(p) = "Status"
            /\ p.phase = (IF count_reservations(p) > 0 THEN "Active" ELSE "Ready")
    \/ provider_determine_action(p) = "SecretNotFound" /\ p.phase = "ErrSecretNotFound"

MaskQuiet(m) ==
    /\ ~m.delTs
    /\ get_consumer(m) # Nil
    /\ m.phase = MaskPhaseOf(Val(get_consumer(m)).phase)

\* no reconciler has anything to do but to refresh a status
Quiescent ==
    /\ \A o \in consumers : ConsumerQuiet(o)
    /\ \A r \in reservations : ReservationQuiet(r)
    /\ \A p \in providers : ProviderQuiet(p)
    /\ \A m \in masks : MaskQuiet(m)

\* C4: at every quiescent state, a MaskConsumer with an assignment has the
\* MaskReservation of the assigned slot, with the recorded uid and naming
\* the MaskConsumer's uid, has its projected Secret, and the slot is below
\* maxSlots of the assigned MaskProvider.
C4_QuiescentAssignment ==
    Quiescent =>
        \A o \in {x \in consumers : x.provider # Nil} :
            LET a == Val(o.provider)
                n == ReservationName(a.name, a.slot) IN
            /\ Has(reservations, n)
            /\ Get(reservations, n).spec.uid = o.uid
            /\ Get(reservations, n).uid = a.reservation
            /\ Has(secrets, SecretName(o.name, a.uid))
            /\ \A p \in providers : (p.name = a.name /\ p.uid = a.uid) => a.slot < p.maxSlots

\* a quiescent state where both slots of a MaskProvider are assigned
C4_Witness ==
    /\ Quiescent
    /\ \A c \in MaskNames : Has(consumers, c) /\ Get(consumers, c).provider # Nil
    /\ \E c \in MaskNames : Val(Get(consumers, c).provider).slot = MaxSlotsBound - 1

\* the MaskReservations that name the MaskConsumer o and belong to a
\* MaskProvider of the store
ReservedFor(S, P, o) ==
    {r \in S : r.spec.name = o.name /\ r.spec.uid = o.uid /\ r.owner \in {p.uid : p \in P}}

\* C7: capacity exhaustion is not an error: the step that ends an
\* allocation attempt in which no slot could be reserved sets the phase
\* Waiting (never ErrNoProviders), leaves the MaskConsumer without
\* assignment and without MaskReservation, and ends the pass normally.
C7_WaitingOnExhaustion ==
    [][\A c \in MaskNames :
          (cpc[c] = "waiting" /\ cpc'[c] # "waiting" /\ Has(consumers', c)) =>
              LET o == Get(consumers', c) IN
              /\ o.phase = "Waiting"
              /\ o.provider = Nil
              /\ ReservedFor(reservations', providers', o) = {}
              /\ cpc'[c] = "idle"]_vars

\* a MaskConsumer is Waiting beside an eligible MaskProvider whose slots
\* are taken
C7_Witness ==
    \E o \in consumers :
        /\ o.phase = "Waiting" /\ cpc[o.name] = "idle" /\ o.provider = Nil
        /\ \E p \in list_active_providers(o.providers, o.ns) : list_inactive_slots(p) = {}

\* the uids a MaskReservation of the model can have
ReservationUids ==
    {<<n, k>> : n \in ReservationNames, k \in 1..Cardinality(MaskNames)}

\* the MaskReservation of uid u is in the store and the MaskConsumer it is
\* paired with is not: it was deleted, or replaced by one of another uid
Dangling(u) == \E r \in reservations : r.uid = u /\ ~Paired(consumers, r)

\* C5: slot reclamation: under fair scheduling, a MaskReservation whose
\* MaskConsumer was deleted or replaced is eventually removed from the store.
C5_SlotReclamation ==
    /\ [](\A r \in reservations : r.uid \in ReservationUids)
    /\ \A u \in ReservationUids : Dangling(u) ~> ~\E r \in reservations : r.uid = u

\* the MaskConsumer of a deleted Mask has left and its MaskReservation has
\* been removed
C5_Witness ==
    /\ ~Has(masks, "m0") /\ budget.maskCreates["m0"] = 0
    /\ ~Has(consumers, "m0")
    /\ \A r \in reservations : r.spec.name # "m0"
    /\ Has(consumers, "m1") /\ Get(consumers, "m1").provider # Nil

\* the Mask m requests a tag of the Ready MaskProvider p of one slot
Requests(m, p) ==
    /\ ~m.delTs /\ ~p.delTs
    /\ p.phase = "Ready" /\ p.maxSlots = 1
    /\ m.providers # Nil /\ Val(m.providers) \cap p.tags # {}

\* the MaskConsumer c is assigned the slot of a MaskProvider of the store
AssignedSlot(c, slot) ==
    /\ Has(consumers, c)
    /\ \E p \in providers :
        /\ Has(reservations, ReservationName(p.name, slot))
        /\ Get(consumers, c).provider =
            Some([name |-> p.name, uid |-> p.uid, slot |-> slot,
                  reservation |-> Get(reservations, ReservationName(p.name, slot)).uid,
                  secret |-> SecretName(c, p.uid)])

\* the MaskConsumer c is in the store with an assignment to the MaskProvider p
AssignedTo(c, p) ==
    /\ Has(consumers, c)
    /\ Get(consumers, c).provider # Nil
    /\ Val(Get(consumers, c).provider).uid = p.uid

Unassigned(c) == Has(consumers, c) => Get(consumers, c).provider = Nil

MaskDeleted(m) == ~Has(masks, m) /\ budget.maskCreates[m] = 0

SameTag(m1, m2) ==
    Has(masks, m1) /\ Has(masks, m2) /\ Get(masks, m1).providers = Get(masks, m2).providers

\* C6: waiting then handoff: while the MaskConsumer of Mask 0 exists with
\* its assignment to the MaskProvider of one slot, the MaskConsumer of Mask 1
\* has no assignment; the Mask 1 reaches phase Waiting; and once the Mask 0
\* is deleted, the MaskConsumer of Mask 1 is eventually assigned slot 0.
C6_WaitingThenHandoff ==
    /\ []((\E p \in providers : AssignedTo("m0", p)) => Unassigned("m1"))
    /\ (SeenPhase("m1", None) /\ SameTag("m0", "m1")) ~> SeenPhase("m1", "Waiting")
    /\ (/\ MaskDeleted("m0")
        /\ \E m \in masks, p \in providers : m.name = "m1" /\ Requests(m, p))
            ~> AssignedSlot("m1", 0)

\* the Mask 1 has taken over slot 0 after the Mask 0 was deleted
C6_Witness ==
    /\ MaskDeleted("m0")
    /\ ~Has(consumers, "m0")
    /\ AssignedSlot("m1", 0)
    /\ Get(consumers, "m1").phase = "Active"

\* the MaskProviders that are eligible for the MaskConsumer o
Eligible(o) ==
    {p \in providers :
        /\ ~p.delTs /\ p.phase \in {"Ready", "Active"}
        /\ p.namespaces = Nil \/ o.ns \in Val(p.namespaces)
        /\ o.providers = Nil \/ p.tags \cap Val(o.providers) # {}}

PhaseOf(S, c) == IF Has(S, c) THEN Get(S, c).phase ELSE None

\* C8: the phase ErrNoProviders is written to a MaskConsumer only by an
\* allocation attempt that found the set of eligible MaskProviders empty at
\* its start; that attempt creates no MaskReservation and ends without
\* pruning or retrying; and a Mask whose tag no MaskProvider carries
\* reaches phase ErrNoProviders.
C8_ErrNoProviders ==
    /\ [][\A c \in MaskNames :
            /\ (PhaseOf(consumers', c) = "ErrNoProviders"
                    /\ PhaseOf(consumers, c) # "ErrNoProviders")
                  => cpc[c] = "noproviders"
            /\ (cpc'[c] = "noproviders" /\ cpc[c] # "noproviders")
                  => /\ cpc[c] = "idle"
                     /\ Has(consumers, c)
                     /\ Eligible(Get(consumers, c)) = {}
            /\ cpc[c] = "noproviders" => cpc'[c] \in {"noproviders", "idle"}
            /\ (cpc[c] = "noproviders" /\ cpc'[c] = "idle")
                  => reservations' = reservations]_vars
    /\ \A m \in MaskNames :
            (Has(masks, m) /\ ~Get(masks, m).delTs /\ Get(masks, m).providers = Some({"u"}))
                ~> (Has(masks, m) => (Get(masks, m).delTs \/ Get(masks, m).phase = "ErrNoProviders"))

\* beside a Ready MaskProvider of another tag, a Mask is in phase
\* ErrNoProviders as its MaskConsumer is
C8_Witness ==
    \E m \in masks :
        /\ m.providers = Some({"u"}) /\ m.phase = "ErrNoProviders"
        /\ \E p \in providers : p.phase = "Ready"
        /\ PhaseOf(consumers, m.name) = "ErrNoProviders"

ProviderDeleted(p) == ~Has(providers, p) /\ budget.providerCreates[p] = 0

\* nothing is left of the deleted MaskProvider
Cascaded ==
    /\ reservations = {}
    /\ secrets = {}
    /\ \A o \in consumers :
        o.provider = Nil /\ (o.phase # None => o.phase = "ErrNoProviders")
    /\ \A m \in masks : m.phase = "ErrNoProviders"

\* C9: MaskProvider deletion cascade: after the only MaskProvider is deleted
\* while a Mask holds its slot, eventually no MaskReservation it owned is
\* left, no MaskConsumer has an assignment or a projected Secret, every
\* MaskConsumer that has a phase is in phase ErrNoProviders, and so is
\* every Mask.
C9_ProviderCascade ==
    (\E p \in ProviderNames : ProviderDeleted(p)) ~> Cascaded

\* the cascade has ended with both Masks in the store
C9_Witness ==
    /\ \E p \in ProviderNames : ProviderDeleted(p)
    /\ Cascaded
    /\ \A m \in MaskNames : Has(masks, m) /\ PhaseOf(consumers, m) = "ErrNoProviders"

\* C10: basic assignment: with a Ready MaskProvider of one slot and a Mask
\* that requests its tag, eventually the MaskConsumer of the Mask is
\* assigned the MaskProvider (name, uid), slot 0 and the Secret name
\* {Mask}-{uid}, and that Secret exists with the data of the MaskProvider's
\* credential Secret.
C10_BasicAssignment ==
    (\E m \in masks, p \in providers : m.name = "m0" /\ Requests(m, p)) ~>
        /\ AssignedSlot("m0", 0)
        /\ \E s \in secrets :
            /\ s.name = SecretName("m0", Val(Get(consumers, "m0").provider).uid)
            /\ s.data = creds[Val(Get(consumers, "m0").provider).name]

\* the Mask 0 alone: assigned, with a Secret of the second payload
C10_Witness ==
    /\ AssignedSlot("m0", 0)
    /\ ~Has(masks, "m1")
    /\ \E s \in secrets :
        /\ s.name = SecretName("m0", Val(Get(consumers, "m0").provider).uid)
        /\ s.data = "d2"
        /\ s.data = creds[Val(Get(consumers, "m0").provider).name]

\* the MaskReservation of uid u is owned by a MaskProvider that has left
Orphaned(u) ==
    \E r \in reservations : r.uid = u /\ r.owner \notin {p.uid : p \in providers}

\* the slot i of the MaskProvider p is held by no MaskReservation that p owns
FreeOf(p, i) ==
    ~\E r \in reservations : r.owner = p.uid /\ r.name = ReservationName(p.name, i)

\* every slot of the MaskProvider p is reserved and assigned
HandedOut(p) ==
    /\ Cardinality(OwnedBy(p)) = p.maxSlots
    /\ \E c \in MaskNames : AssignedTo(c, p)

\* C11: delete-recreate safety: a MaskReservation that the MaskProvider at
\* hand does not own (it is owned by the uid of the deleted MaskProvider of
\* that name) does not count in the slot scan or in activeSlots; every
\* MaskReservation owned by a uid that has left is eventually removed; and
\* the MaskProvider created again eventually hands out its slots.
C11_DeleteRecreate ==
    /\ [][\A c \in MaskNames :
            (cpc[c] = "scan" /\ cpc'[c] # "scan") =>
                \A i \in 0..(Head(cl[c].provs).maxSlots - 1) :
                    FreeOf(Head(cl[c].provs), i) =>
                        /\ cpc'[c] = "create"
                        /\ \E k \in 1..Len(cl'[c].slots) : cl'[c].slots[k] = i]_vars
    /\ [](\A p \in providers :
            p.activeSlots # Nil => Val(p.activeSlots) <= Cardinality(OwnedBy(p)))
    /\ \A u \in ReservationUids :
            Orphaned(u) ~> ~\E r \in reservations : r.uid = u
    /\ (\E p \in providers, m \in masks : Recreated(p.name) /\ Requests(m, p))
            ~> (\A p \in providers : Recreated(p.name) => (p.delTs \/ HandedOut(p)))

\* a pass is about to create the MaskReservation of slot 0 for the
\* MaskProvider created again, while the MaskReservation of that name is
\* the one the deleted MaskProvider owned
C11_Witness ==
    \E p \in providers, r \in reservations :
        /\ Recreated(p.name)
        /\ r.name = ReservationName(p.name, 0) /\ r.owner # p.uid
        /\ \E c \in MaskNames :
            cpc[c] = "create" /\ Head(cl[c].provs).uid = p.uid /\ Head(cl[c].slots) = 0

\* the MaskConsumer c takes the step of try_reserve_slot that creates the
\* MaskReservation of the slot at hand
CreateStep(c) == cpc[c] = "create" /\ <<cpc[c], cl[c]>>' # <<cpc[c], cl[c]>>

\* the name of the MaskReservation that the pass of c is about to create
CreateName(c) == ReservationName(Head(cl[c].provs).name, Head(cl[c].slots))

\* C12: every MaskReservation is in the namespace of the MaskProvider that
\* owns it and is named {providerName}-{slot} for one of its slots, and a
\* create_reservation for a free slot succeeds, in whatever namespace the
\* MaskConsumer lives: the MaskReservation is in the store afterwards, in
\* the MaskProvider's namespace, paired with the MaskConsumer.
C12_CrossNamespace ==
    /\ [](\A r \in reservations, p \in providers :
            r.owner = p.uid =>
                /\ r.ns = p.ns
                /\ \E i \in 0..(p.maxSlots - 1) : r.name = ReservationName(p.name, i))
    /\ [][\A c \in MaskNames :
            (CreateStep(c) /\ ~Has(reservations, CreateName(c))) =>
                \E r \in reservations' :
                    /\ r.name = CreateName(c)
                    /\ r.ns = Head(cl[c].provs).ns
                    /\ r.spec.uid = cl[c].uid]_vars

\* the uids of the MaskProviders of a list
UidsOf(seq) == {seq[i].uid : i \in 1..Len(seq)}

\* the MaskConsumer c starts a pass of assign_provider
StartStep(c) == cpc[c] = "idle" /\ cpc'[c] # "idle"

\* C13: for a MaskConsumer without the verify label a MaskProvider is in the
\* eligible set exactly when it has no deletion timestamp, is Ready or
\* Active, admits the MaskConsumer's namespace and, when the MaskConsumer
\* names tags, carries one of them.  The first attempt of a pass runs over
\* exactly the eligible MaskProviders whose status is below capacity, the
\* pass takes the way of ErrNoProviders exactly when none is eligible, the
\* second attempt runs over exactly the eligible ones, and the MaskProvider
\* that a MaskConsumer is assigned, or holds a MaskReservation of, is
\* eligible (so it is in no phase but Ready and Active).
C13_Eligibility ==
    /\ [][\A c \in MaskNames :
            /\ StartStep(c) =>
                LET o == Get(consumers, c) IN
                /\ (cpc'[c] = "noproviders") <=> (Eligible(o) = {})
                /\ UidsOf(cl'[c].provs) = {p.uid : p \in {q \in Eligible(o) : BelowCapacity(q)}}
            /\ (cpc[c] = "relist" /\ cpc'[c] = "scan") =>
                UidsOf(cl'[c].provs) = {p.uid : p \in Eligible(Get(consumers, c))}]_vars
    /\ [](\A o \in consumers :
            /\ (o.verify = Nil /\ o.provider # Nil) =>
                    \E p \in Eligible(o) : p.uid = Val(o.provider).uid
            /\ \A r \in reservations :
                    (o.verify = Nil /\ r.spec.uid = o.uid) =>
                        \E p \in Eligible(o) : p.uid = r.owner)

\* the MaskConsumer m1 is assigned the MaskProvider q, the MaskProvider p
\* being passed over for its phase alone
C13_Witness ==
    /\ Has(consumers, "m1") /\ Get(consumers, "m1").provider # Nil
    /\ Val(Get(consumers, "m1").provider).name = <<"q">>
    /\ \E p \in providers :
        /\ p.name = <<"p">> /\ ~p.delTs /\ p.maxSlots > 0
        /\ p.phase \in ProviderPhases \ {"Ready", "Active"}
        /\ \A r \in reservations : r.owner # p.uid

\* the MaskProviders that pass the filters on deletion, phase and namespace
PassesFilters(o) ==
    {p \in providers :
        /\ ~p.delTs /\ p.phase \in {"Ready", "Active"}
        /\ p.namespaces = Nil \/ o.ns \in Val(p.namespaces)}

\* C14: a MaskConsumer whose providers list is present and empty asks for
\* any MaskProvider: its pass runs over every MaskProvider that passes the
\* filters on deletion, phase and namespace, whatever the tags, and takes
\* the way of ErrNoProviders only when there is none.
C14_EmptyListIsAny ==
    [][\A c \in MaskNames :
        (StartStep(c) /\ Get(consumers, c).providers = Some({})) =>
            LET o == Get(consumers, c) IN
            /\ (cpc'[c] = "noproviders") <=> (PassesFilters(o) = {})
            /\ UidsOf(cl'[c].provs) =
                    {p.uid : p \in {q \in PassesFilters(o) : BelowCapacity(q)}}]_vars

\* the create of the MaskConsumer c is answered 409 Conflict
Conflict(c) ==
    /\ cpc[c] = "create"
    /\ cl[c].ns = Head(cl[c].provs).ns
    /\ Has(reservations, CreateName(c))

\* the create of the MaskConsumer c is answered with another error
CreateError(c) == cpc[c] = "create" /\ cl[c].ns # Head(cl[c].provs).ns

\* C18: a 409 Conflict on the create of a MaskReservation is no error: the
\* pass goes on with the next free index of the scan, or with the next
\* MaskProvider of the list when there is no further index, and it creates
\* nothing in that step.  Any other error of the create ends the pass at
\* once: nothing is created, the MaskConsumer's status.provider stays unset
\* and the pass tries no further index and no further MaskProvider.
C18_ConflictContinues ==
    [][\A c \in MaskNames :
        /\ (CreateStep(c) /\ Conflict(c)) =>
            /\ reservations' = reservations /\ consumers' = consumers
            /\ IF Tail(cl[c].slots) # <<>>
               THEN /\ cpc'[c] = "create"
                    /\ cl'[c].provs = cl[c].provs
                    /\ cl'[c].slots = Tail(cl[c].slots)
               ELSE IF Tail(cl[c].provs) # <<>>
               THEN cpc'[c] = "scan" /\ cl'[c].provs = Tail(cl[c].provs)
               ELSE cpc'[c] \in {"prune", "waiting"}
        /\ (CreateStep(c) /\ CreateError(c)) =>
            /\ reservations' = reservations /\ consumers' = consumers
            /\ Get(consumers, c).provider = Nil
            /\ cpc'[c] = "idle" /\ cl'[c] = NoLocals]_vars

\* the create of the slot 0 by the MaskConsumer m0 meets the MaskReservation
\* that the MaskConsumer m1 has created since the scan, with a further
\* MaskProvider in the list of m0
C18_Witness ==
    /\ Conflict("m0")
    /\ Tail(cl["m0"].provs) # <<>>
    /\ Get(reservations, CreateName("m0")).spec.name = "m1"

\* the MaskConsumer c has eligible MaskProviders, all of them of no slot
OnlyZeroSlots(c) ==
    /\ Has(consumers, c)
    /\ Get(consumers, c).verify = Nil
    /\ Eligible(Get(consumers, c)) # {}
    /\ \A p \in Eligible(Get(consumers, c)) : p.maxSlots = 0

\* the pass of the MaskConsumer c ends
EndStep(c) == cpc[c] # "idle" /\ cpc'[c] = "idle"

\* C19: a MaskProvider with maxSlots = 0 never owns a MaskReservation, and a
\* MaskConsumer whose eligible MaskProviders all have maxSlots = 0 is never
\* assigned and never in the phase ErrNoProviders: each of its passes ends
\* with the phase Waiting written and status.provider unset.
C19_ZeroSlots ==
    /\ [](\A p \in providers : p.maxSlots = 0 => OwnedBy(p) = {})
    /\ [](\A c \in MaskNames :
            OnlyZeroSlots(c) =>
                /\ Get(consumers, c).provider = Nil
                /\ Get(consumers, c).phase \in {"Pending", "Waiting"})
    /\ [][\A c \in MaskNames :
            (OnlyZeroSlots(c) /\ EndStep(c)) =>
                \E o \in consumers' :
                    o.name = c /\ o.phase = "Waiting" /\ o.provider = Nil]_vars

\* the MaskConsumer m0 has ended a pass over the MaskProvider p of no slot,
\* which is Ready, and is about to start the next
C19_Witness ==
    /\ OnlyZeroSlots("m0")
    /\ Get(consumers, "m0").phase = "Waiting"
    /\ cpc["m0"] = "idle"
    /\ \E p \in Eligible(Get(consumers, "m0")) : p.phase = "Ready"

\* the conditions of the MaskConsumer reconciler, in the order of their
\* priority
DeletionSet(o) == o.delTs

Uninitialised(o) == ~o.fin \/ o.phase = None

NoAssignment(o) == o.provider = Nil

ReservationLost(o) ==
    ~\E r \in reservations :
        /\ r.name = ReservationName(Val(o.provider).name, Val(o.provider).slot)
        /\ r.uid = Val(o.provider).reservation

SecretAbsent(o) == ~\E x \in secrets : x.name = Val(o.provider).secret

\* C20: a pass of the MaskConsumer reconciler takes one action, the first of
\* Delete (deletion timestamp set), Pending (no finalizer or no phase),
\* Assign (no provider assigned), self-Delete (the MaskReservation named by
\* the assignment is missing or has another uid), CreateSecret (the
\* projected Secret is absent) and Active whose condition holds: no action
\* is taken while the condition of one before it holds, and the action
\* Active that changes the MaskConsumer finds a phase other than Active.
C20_ActionPriority ==
    [][\A c \in MaskNames :
        LET o == Get(consumers, c) IN
        /\ ConsumerDelete(c) => DeletionSet(o)
        /\ ConsumerPending(c) => ~DeletionSet(o) /\ Uninitialised(o)
        /\ AssignStart(c) => ~DeletionSet(o) /\ ~Uninitialised(o) /\ NoAssignment(o)
        /\ ConsumerSelfDelete(c) =>
                /\ ~DeletionSet(o) /\ ~Uninitialised(o) /\ ~NoAssignment(o)
                /\ ReservationLost(o)
        /\ ConsumerCreateSecret(c) =>
                /\ ~DeletionSet(o) /\ ~Uninitialised(o) /\ ~NoAssignment(o)
                /\ ~ReservationLost(o) /\ SecretAbsent(o)
        /\ ConsumerActive(c) =>
                /\ ~DeletionSet(o) /\ ~Uninitialised(o) /\ ~NoAssignment(o)
                /\ ~ReservationLost(o) /\ ~SecretAbsent(o)
                /\ o.phase # "Active"]_vars

\* the MaskConsumer m0, which has been through Pending and Assign and waits
\* for a slot, is being deleted: the conditions of Delete and of Assign hold
C20_Witness ==
    /\ Has(consumers, "m0") /\ cpc["m0"] = "idle"
    /\ DeletionSet(Get(consumers, "m0"))
    /\ ~Uninitialised(Get(consumers, "m0"))
    /\ NoAssignment(Get(consumers, "m0"))
    /\ Get(consumers, "m0").phase = "Waiting"

\* the mirror of the phases of a MaskConsumer
MirrorOf ==
    [Pending |-> "Waiting", Waiting |-> "Waiting", Terminating |-> "Waiting",
     Active |-> "Active", ErrNoProviders |-> "ErrNoProviders"]

\* the Mask of name m is in the store before and after the step, with
\* another phase after it
PhaseWritten(m) ==
    /\ Has(masks, m)
    /\ \E x \in masks' :
        x.name = m /\ x.uid = Get(masks, m).uid /\ x.phase # Get(masks, m).phase

\* the three reconcilers below the Mask reconciler have nothing to do but to
\* refresh a status, and the Mask reconciler has nothing to write
MirrorQuiescent ==
    /\ \A o \in consumers : ConsumerQuiet(o)
    /\ \A r \in reservations : ReservationQuiet(r)
    /\ \A p \in providers : ProviderQuiet(p)
    /\ \A m \in MaskNames : ~ENABLED <<MaskReconciler(m)>>_vars

\* C17: a step that changes the phase of a Mask whose child MaskConsumer
\* exists writes the mirror of the child's phase (Pending, Waiting and
\* Terminating give Waiting, Active gives Active, ErrNoProviders gives
\* ErrNoProviders); in a quiescent state every Mask that has its child
\* shows the mirror of the child's phase; and a pass that finds the mirror
\* already written, the status not being stale, writes nothing.  (The age of
\* a status is an input of the pass: a rewrite of the same phase changes
\* nothing of the state.)
C17_PhaseMirror ==
    /\ [][\A m \in MaskNames :
            (PhaseWritten(m) /\ get_consumer(Get(masks, m)) # Nil) =>
                LET child == Val(get_consumer(Get(masks, m))) IN
                /\ child.phase \in DOMAIN MirrorOf
                /\ \E x \in masks' : x.name = m /\ x.phase = MirrorOf[child.phase]]_vars
    /\ [](MirrorQuiescent =>
            \A m \in masks :
                get_consumer(m) # Nil =>
                    /\ Val(get_consumer(m)).phase \in DOMAIN MirrorOf
                    /\ m.phase = MirrorOf[Val(get_consumer(m)).phase])

\* a quiescent state in which the Mask m0 mirrors Active and the Mask m1
\* mirrors Waiting
C17_Witness ==
    /\ MirrorQuiescent
    /\ Has(masks, "m0") /\ Get(masks, "m0").phase = "Active"
    /\ Has(masks, "m1") /\ Get(masks, "m1").phase = "Waiting"
    /\ get_consumer(Get(masks, "m0")) # Nil /\ get_consumer(Get(masks, "m1")) # Nil

\* the verification Mask and the verification Pod of the MaskProvider p
VerifyObjects(M, P, p) ==
    {x.uid : x \in {m \in M : m.name = get_verify_mask_name(p.name)}}
        \cup {x.owner : x \in {y \in P : y.name = p.name}}

\* C15: a MaskProvider that does not skip its verification is Ready or
\* Active only with status.lastVerified set; a MaskProvider with
\* spec.verify.skip is never Verifying, Verified or ErrVerifyFailed, and
\* while it is in the store no verification Mask and no verification Pod of
\* its name is created.
C15_VerificationGating ==
    /\ [](\A p \in providers :
            /\ (~p.skip /\ p.phase \in {"Ready", "Active"}) => p.lastVerified
            /\ p.skip => p.phase \notin {"Verifying", "Verified", "ErrVerifyFailed"})
    /\ [][\A p \in providers :
            p.skip => VerifyObjects(masks', pods', p) \subseteq VerifyObjects(masks, pods, p)]_vars

\* a MaskProvider that asks for its verification has come to Ready
C15_Witness ==
    \E p \in providers : ~p.skip /\ p.phase = "Ready" /\ p.lastVerified

\* the changes of status.phase of a verification that succeeds
SuccessPhases ==
    {<<None, "Pending">>, <<"Pending", "Verifying">>,
     <<"Verifying", "Verified">>, <<"Verified", "Ready">>}

\* the MaskConsumer with the verify label of p is assigned p while p is
\* neither Ready nor Active
VerifyAssigned ==
    \E p \in providers, c \in consumers :
        /\ p.phase \notin {"Ready", "Active"}
        /\ c.verify = Some(p.uid)
        /\ c.provider # Nil
        /\ Val(c.provider).uid = p.uid

\* status.lastVerified is set, and the verification Pod and the verification
\* Mask of p are gone
VerifyCleaned ==
    \E p \in providers :
        /\ p.lastVerified
        /\ ~\E x \in pods : x.name = p.name
        /\ ~Has(masks, get_verify_mask_name(p.name))

\* C16: a MaskProvider that asks for its verification, with its credential
\* Secret, a free slot and a probe that succeeds, changes its phase only
\* from unset to Pending, from Pending to Verifying, from Verifying to
\* Verified and from Verified to Ready; the MaskConsumer with its verify
\* label is assigned it while it is not Ready or Active; and eventually
\* status.lastVerified is set with the Pod and the verification Mask gone.
C16_VerificationSuccess ==
    /\ [][\A p \in providers : \A q \in providers' :
            (q.uid = p.uid /\ q.phase # p.phase) =>
                <<p.phase, q.phase>> \in SuccessPhases]_vars
    /\ <>VerifyAssigned
    /\ <>VerifyCleaned

\* the names and uids of the objects of a store
Idents(S) == {<<x.name, x.uid>> : x \in S}

\* the MaskConsumer of name c and uid u is written the phase Active
BecomesActive(c, u) ==
    /\ \E o \in consumers : o.name = c /\ o.uid = u /\ o.phase # "Active"
    /\ \E o \in consumers' : o.name = c /\ o.uid = u /\ o.phase = "Active"

\* the MaskReservation that the assignment of o names is in the store with
\* the recorded uid and is paired with o
OwnReservation(o) ==
    \E r \in reservations :
        /\ r.name = ReservationName(Val(o.provider).name, Val(o.provider).slot)
        /\ r.uid = Val(o.provider).reservation
        /\ r.spec = [name |-> o.name, uid |-> o.uid]

\* C21: a pass of the MaskConsumer reconciler on a MaskConsumer with an
\* assignment whose MaskReservation is missing, or has another uid than the
\* recorded one, leaves the store without that MaskConsumer, and creates no
\* MaskReservation and no Secret; and the phase Active is written only to
\* a MaskConsumer whose MaskReservation is in the store with the recorded
\* uid and paired with it.
C21_ReservationCheck ==
    /\ [][\A c \in MaskNames :
            (/\ Has(consumers, c)
             /\ Get(consumers, c).provider # Nil
             /\ ReservationLost(Get(consumers, c))
             /\ ConsumerReconciler(c)) =>
                /\ Get(consumers, c).uid \notin {x.uid : x \in consumers'}
                /\ Idents(reservations') \subseteq Idents(reservations)
                /\ {x.name : x \in secrets'} \subseteq {x.name : x \in secrets}]_vars
    /\ [][\A o \in consumers :
            BecomesActive(o.name, o.uid) => (o.provider # Nil /\ OwnReservation(o))]_vars

\* the MaskConsumer m0 is Active with its Secret, and the MaskReservation of
\* its slot has been replaced by one of another uid, paired with m1
C21_Witness ==
    /\ Has(consumers, "m0") /\ cpc["m0"] = "idle"
    /\ LET o == Get(consumers, "m0") IN
        /\ ~o.delTs /\ o.phase = "Active" /\ o.provider # Nil
        /\ ReservationLost(o)
        /\ ~SecretAbsent(o)
        /\ \E r \in reservations :
            /\ r.name = ReservationName(Val(o.provider).name, Val(o.provider).slot)
            /\ r.spec.name = "m1"

\* the MaskReservation r is in the store S with its finalizer
Finalized(S, r) == \E x \in S : x.name = r.name /\ x.uid = r.uid /\ x.fin

\* the MaskConsumer that r is paired with is not in the store S, or is being
\* deleted
DeleteIssued(S, r) ==
    \A o \in S : (o.name = r.spec.name /\ o.uid = r.spec.uid) => o.delTs

\* C22: a pass on a MaskReservation with a deletion timestamp whose paired
\* MaskConsumer is in the store with the uid of the spec goes on to delete
\* that MaskConsumer and keeps the finalizer; the step that deletes leaves
\* the paired MaskConsumer deleted or being deleted, and keeps the
\* finalizer; and the finalizer of a MaskReservation goes only in a step
\* that finds the paired MaskConsumer not in the store.
C22_TwoStepTermination ==
    /\ [][\A n \in ReservationNames :
            (/\ ReservationDelete(n)
             /\ Paired(consumers, Get(reservations, n))) =>
                /\ rpc'[n] = "delete"
                /\ Finalized(reservations', Get(reservations, n))]_vars
    /\ [][\A n \in ReservationNames :
            (rpc[n] = "delete" /\ rpc'[n] = "idle") =>
                /\ Has(reservations, n)
                /\ Finalized(reservations', Get(reservations, n))
                /\ DeleteIssued(consumers', Get(reservations, n))]_vars
    /\ [][\A r \in reservations :
            (r.fin /\ ~Finalized(reservations', r)) => ~Paired(consumers, r)]_vars

\* the delete of the paired MaskConsumer is issued and the MaskReservation,
\* which is being deleted, has kept its finalizer
C22_Witness ==
    \E r \in reservations :
        /\ r.delTs /\ r.fin /\ r.phase = "Terminating"
        /\ rpc[r.name] = "idle"
        /\ \E o \in consumers : o.name = r.spec.name /\ o.uid = r.spec.uid /\ o.delTs

\* the MaskReservation r asks for its own deletion
SelfDeletion(r) ==
    /\ ~r.delTs
    /\ r.fin /\ r.phase # None
    /\ ~Paired(consumers, r)

\* the MaskConsumer o is deleted in the step: it leaves the store, or gets
\* its deletion timestamp
Deleted(o) ==
    \A x \in consumers' : (x.name = o.name /\ x.uid = o.uid) => (x.delTs /\ ~o.delTs)

\* C23: the MaskReservation reconciler requests the deletion of its
\* MaskReservation exactly when it has no deletion timestamp, has its
\* finalizer and a phase, and the paired MaskConsumer is missing or has
\* another uid; and the MaskConsumer that a pass of it deletes has the name
\* and the uid of the spec of the MaskReservation.
C23_SelfDeletePrecision ==
    /\ [](\A n \in ReservationNames :
            (ENABLED <<ReservationSelfDelete(n)>>_vars) <=>
                (ReservationIdle(n) /\ SelfDeletion(Get(reservations, n))))
    /\ [][\A n \in ReservationNames :
            ReservationDeleteConsumer(n) =>
                \A o \in consumers :
                    Deleted(o) =>
                        /\ Has(reservations, n)
                        /\ o.name = Get(reservations, n).spec.name
                        /\ o.uid = Get(reservations, n).spec.uid]_vars

\* the MaskReservation r is deleted in the step: it leaves the store, or
\* gets its deletion timestamp
Pruned(r) ==
    \A x \in reservations' : (x.name = r.name /\ x.uid = r.uid) => (x.delTs /\ ~r.delTs)

\* C24: the MaskReservation that prune_provider deletes for the
\* MaskProvider at hand is owned by the uid of that MaskProvider and is
\* paired with a MaskConsumer that is missing or has another uid: a
\* MaskReservation whose paired MaskConsumer is in the store with the uid of
\* its spec is not deleted by the pruning, also when the MaskConsumer has
\* created it and has not yet written it to its status.
C24_PrunePrecision ==
    [][\A c \in MaskNames :
        AssignPruneDelete(c) =>
            \A r \in reservations :
                Pruned(r) =>
                    /\ r.owner = Head(cl[c].prune).uid
                    /\ ~Paired(consumers, r)]_vars

\* the MaskProviders that are eligible for the MaskConsumer o, publish that
\* they are at capacity and have a slot that no MaskReservation holds
StaleFull(o) ==
    {p \in Eligible(o) :
        /\ p.activeSlots # Nil /\ Val(p.activeSlots) >= p.maxSlots
        /\ \E i \in 0..(p.maxSlots - 1) : FreeOf(p, i)}

\* C25: when the first attempt of a pass has assigned nothing and the
\* second listing holds a MaskProvider that publishes activeSlots at
\* maxSlots while one of its slots is free, the pass goes on to a second
\* attempt that considers that MaskProvider, whatever else has changed in
\* the set of eligible MaskProviders since the first listing.
C25_StaleCapacityRetry ==
    [][\A c \in MaskNames :
        (/\ cpc[c] = "relist" /\ cpc'[c] # "relist"
         /\ Has(consumers, c)
         /\ StaleFull(Get(consumers, c)) # {}) =>
            /\ cpc'[c] = "scan"
            /\ cl'[c].pass = 2
            /\ {p.uid : p \in StaleFull(Get(consumers, c))} \subseteq UidsOf(cl'[c].provs)]_vars

\* C26: when the first attempt of a pass has assigned nothing, the pass
\* prunes, lists the eligible MaskProviders again and runs the scan once
\* more, over that list, before it sets Waiting, whether or not the pruning
\* has deleted anything; a pass runs at most two attempts, and every pass
\* ends.
C26_TwoPass ==
    /\ [][\A c \in MaskNames :
            (/\ cpc[c] = "relist" /\ cpc'[c] # "relist"
             /\ Has(consumers, c)
             /\ Eligible(Get(consumers, c)) # {}) =>
                /\ cpc'[c] = "scan"
                /\ cl'[c].pass = 2
                /\ UidsOf(cl'[c].provs) = {p.uid : p \in Eligible(Get(consumers, c))}]_vars
    /\ [](\A c \in MaskNames : cl[c].pass \in 0..2)
    /\ [][\A c \in MaskNames : cl[c].pass = 2 => cl'[c].pass \in {0, 2}]_vars
    /\ \A c \in MaskNames : (cpc[c] # "idle") ~> (cpc[c] = "idle")
\* the slots of the MaskProvider that are occupied: those of the
\* MaskReservations of its namespace that it owns and that are named after it
Occupied(p) ==
    {i \in 0..SlotScanBound : \E r \in reservations :
        r.name = ReservationName(p.name, i) /\ r.owner = p.uid /\ r.ns = p.ns}

IsAscending(s) == \A i \in 1..(Len(s) - 1) : s[i] < s[i + 1]

Range(s) == {s[i] : i \in 1..Len(s)}

\* the pass of c lists the free slots of the MaskProvider at hand
ListsSlots(c) == cpc[c] = "scan" /\ <<cpc[c], cl[c]>>' # <<cpc[c], cl[c]>>

\* the pass of c sends the create of the slot at hand
TriesSlot(c) == cpc[c] = "create" /\ <<cpc[c], cl[c]>>' # <<cpc[c], cl[c]>>

\* C27: the slots of a MaskProvider that the scan takes for occupied are
\* those of the MaskReservations named {name}-{i} that the MaskProvider owns:
\* the number parsed from a name formatted from a MaskProvider's name (with
\* or without '-' and digits) and a slot is that slot, and a name that does
\* not end in a number counts for nothing; the scan tries the slots below
\* maxSlots that are not occupied, in ascending order, and assigns the
\* first one whose create succeeds.
C27_SlotScan ==
    /\ [](\A p \in providers : list_active_slots(p) = Occupied(p))
    /\ [](\A r \in reservations, p \in providers, i \in 0..SlotScanBound :
            r.name = ReservationName(p.name, i) =>
                ParseUsize(LastSegment(r.name)) = Some(i))
    /\ [][\A c \in MaskNames : ListsSlots(c) =>
            LET p == Head(cl[c].provs)
                free == (0..(p.maxSlots - 1)) \ Occupied(p) IN
            IF free = {} THEN cpc'[c] # "create"
            ELSE /\ cpc'[c] = "create"
                 /\ Range(cl'[c].slots) = free
                 /\ IsAscending(cl'[c].slots)]_vars
    /\ [](\A c \in MaskNames : cpc[c] = "create" =>
            cl[c].slots # <<>> /\ IsAscending(cl[c].slots))
    /\ [][\A c \in MaskNames : TriesSlot(c) =>
            LET p == Head(cl[c].provs)
                n == ReservationName(p.name, Head(cl[c].slots)) IN
            IF Has(reservations, n)
            THEN /\ UNCHANGED reservations
                 /\ cpc'[c] = "create" => cl'[c].slots = Tail(cl[c].slots)
                 /\ cpc'[c] # "patch"
            ELSE /\ cpc'[c] = "patch"
                 /\ cl'[c].slots = <<Head(cl[c].slots)>>
                 /\ \E r \in reservations' :
                        /\ reservations' = reservations \cup {r}
                        /\ r.name = n /\ r.owner = p.uid /\ r.uid = cl'[c].created
                        /\ r.spec = [name |-> c, uid |-> cl[c].uid]]_vars
    /\ [][\A c \in MaskNames : (cpc[c] = "patch" /\ cpc'[c] # "patch" /\ Has(consumers, c)) =>
            /\ Get(consumers', c).provider # Nil
            /\ Val(Get(consumers', c).provider).slot = Head(cl[c].slots)
            /\ Val(Get(consumers', c).provider).reservation = cl[c].created]_vars

\* a MaskConsumer has slot 2 of a MaskProvider with a '-' and a digit in its
\* name, whose slots 0, 1 and 10 were reserved and which owns a
\* MaskReservation of a name that does not end in a number
C27_Witness ==
    \E c \in MaskNames, p \in providers :
        /\ p.name = <<"p", "-", "1">>
        /\ MalformedReservation(p) \in reservations
        /\ {0, 1, 2, SlotScanBound - 1} \subseteq Occupied(p)
        /\ Has(consumers, c)
        /\ Get(consumers, c).provider # Nil
        /\ Val(Get(consumers, c).provider).name = p.name
        /\ Val(Get(consumers, c).provider).slot = 2

SecretNames(S) == {x.name : x \in S}

\* the pass of c is in assign_provider, or this step ends it
Allocating(c) == cpc[c] # "idle"

\* this step writes the phase Active to the status of the MaskConsumer c
WritesActive(c) ==
    /\ Has(consumers', c)
    /\ Get(consumers', c).phase = "Active"
    /\ ~(Has(consumers, c) /\ Get(consumers, c).phase = "Active"
            /\ Get(consumers, c).uid = Get(consumers', c).uid)

\* the MaskConsumer c is assigned and its pass has found its MaskReservation
ObservedReservation(c) ==
    /\ Has(consumers, c)
    /\ Get(consumers, c).provider # Nil
    /\ \E r \in reservations :
        /\ r.name = ReservationName(Val(Get(consumers, c).provider).name,
                                     Val(Get(consumers, c).provider).slot)
        /\ r.uid = Val(Get(consumers, c).provider).reservation

\* C28: the step of the allocation pass that records the assignment creates
\* no Secret; a projected Secret {consumer}-{provider uid} is created only by
\* a pass of the assigned MaskConsumer outside the allocation that found the
\* MaskReservation of the recorded uid, and only when no Secret of that name
\* exists; the phase Active is written only by a pass that found both the
\* MaskReservation and the Secret.
C28_ProjectionOrdering ==
    /\ [][\A c \in AllMaskNames : Allocating(c) /\ <<cpc[c], cl[c]>>' # <<cpc[c], cl[c]>> =>
            SecretNames(secrets') \subseteq SecretNames(secrets)]_vars
    /\ [][\A n \in SecretNames(secrets') \ SecretNames(secrets) :
            \E c \in AllMaskNames :
                /\ ~Allocating(c)
                /\ ObservedReservation(c)
                /\ n = SecretName(c, Val(Get(consumers, c).provider).uid)
                /\ n = Val(Get(consumers, c).provider).secret
                /\ Get(secrets', n).owner = Get(consumers, c).uid]_vars
    /\ [][\A c \in AllMaskNames : WritesActive(c) =>
            /\ ~Allocating(c)
            /\ ObservedReservation(c)
            /\ Has(secrets, Val(Get(consumers, c).provider).secret)
            /\ Get(consumers', c).provider = Get(consumers, c).provider]_vars

\* a MaskConsumer is Active with its MaskReservation and its own projected
\* Secret in the store
C28_Witness ==
    \E c \in MaskNames :
        /\ ObservedReservation(c)
        /\ Get(consumers, c).phase = "Active"
        /\ ~Allocating(c)
        /\ \E x \in secrets :
            /\ x.name = Val(Get(consumers, c).provider).secret
            /\ x.owner = Get(consumers, c).uid

\* the objects of the store (the age of a status is not part of the state)
Store == <<providers, creds, masks, consumers, reservations, secrets, pods>>

\* the MaskConsumer o is Active with its MaskReservation and its projected
\* Secret in the store, and no pass of it is running
QuiescentConsumer(o) ==
    /\ cpc[o.name] = "idle"
    /\ ~o.delTs /\ o.fin /\ o.phase = "Active"
    /\ o.provider # Nil
    /\ get_reservation(Val(o.provider)) # Nil
    /\ get_secret(o.name, Val(o.provider)) # Nil

\* the MaskReservation r is Active with its MaskConsumer in the store, and no
\* pass of it is running
QuiescentReservation(r) ==
    /\ rpc[r.name] = "idle"
    /\ ~r.delTs /\ r.fin /\ r.phase = "Active"
    /\ reservation_get_consumer(r) # Nil

\* this step belongs to a pass of assign_provider for the MaskConsumer c,
\* which has its assignment
AssignsAgain(c) ==
    /\ cpc[c] # "idle"
    /\ <<cpc[c], cl[c]>>' # <<cpc[c], cl[c]>>
    /\ Has(consumers, c)
    /\ Get(consumers, c).provider # Nil

\* C29: no pass of the reconciler of a quiescent MaskConsumer or
\* MaskReservation (Active, with what it depends on in the store, its status
\* not being stale) changes anything; and a reconcile action that runs on
\* an object already in the state the action leads to changes no object of
\* the store.
C29_Idempotence ==
    /\ [](\A o \in consumers :
            (o.name \in MaskNames /\ QuiescentConsumer(o)) =>
                /\ determine_action(o) = "Status"
                /\ ~ENABLED <<ConsumerReconciler(o.name)>>_vars)
    /\ [](\A r \in reservations :
            (r.name \in ReservationNames /\ QuiescentReservation(r)) =>
                /\ reservation_determine_action(r) = "Status"
                /\ ~ENABLED <<ReservationReconciler(r.name)>>_vars)
    /\ [][\A c \in MaskNames :
            (PendingAgain(c) \/ CreateSecretAgain(c) \/ ActiveAgain(c) \/ DeleteAgain(c)) =>
                UNCHANGED Store]_vars
    /\ [][\A n \in ReservationNames :
            (ReservationPendingAgain(n) \/ ReservationActiveAgain(n)
                \/ ReservationDeleteAgain(n)) => UNCHANGED Store]_vars
    /\ [][\A c \in MaskNames : AssignsAgain(c) => UNCHANGED Store]_vars

\* the number of active slots of the MaskProvider p: its MaskReservations,
\* at most maxSlots
ActiveSlotsOf(p) ==
    IF Cardinality(OwnedBy(p)) < p.maxSlots THEN Cardinality(OwnedBy(p)) ELSE p.maxSlots

\* the status of the MaskProvider p is the one that ActiveSlotsOf gives
Published(p, o) ==
    /\ p.activeSlots = Some(ActiveSlotsOf(o))
    /\ p.phase = (IF ActiveSlotsOf(o) > 0 THEN "Active" ELSE "Ready")

\* C30: the MaskProvider reconciler writes to status.activeSlots the number
\* of MaskReservations whose owner uid is the MaskProvider's, or maxSlots if
\* that is less, so that the published value never exceeds maxSlots; it
\* writes the phase Active when the value is greater than 0 and the phase
\* Ready, with activeSlots 0, when it is 0.  (A status that the reconciler
\* would write again as it is, is the status it writes.)
C30_CapacityPublish ==
    /\ [][\A p \in ProviderNames : ProviderStatus(p) =>
            Published(Get(providers', p), Get(providers, p))]_vars
    /\ [](\A p \in providers :
            (/\ p.name \in ProviderNames
             /\ provider_determine_action(p) = "Status"
             /\ p.phase \in {"Ready", "Active"}
             /\ ~ENABLED <<ProviderStatus(p.name)>>_vars) => Published(p, p))
    /\ [](\A p \in providers : p.activeSlots # Nil => Val(p.activeSlots) <= p.maxSlots)

\* ---- verification with probes that may fail, under fair scheduling ----

\* every reconciler, the kubelet and the garbage collector keep running;
\* nothing is asked of the users
RetryFairness ==
    /\ \A m \in VerifyMaskNames :
        /\ WF_vars(MaskReconciler(m))
        /\ WF_vars(VerifyConsumerReconciler(m))
        /\ WF_vars(CollectConsumer(m))
        /\ WF_vars(CollectSecret(m))
    /\ \A n \in ReservationNames :
        /\ WF_vars(ReservationReconciler(n))
        /\ WF_vars(CollectReservation(n))
    /\ \A p \in ProviderNames :
        /\ WF_vars(VerifyProviderReconciler(p))
        /\ WF_vars(Kubelet(p))
        /\ WF_vars(CollectPod(p))

FairRetry == Init /\ [][VerifyNext]_vars /\ RetryFairness

\* ---- the Delete pass of a MaskProvider with dependents ----

\* the assignment of slot n of the MaskProvider q to the MaskConsumer c
SlotAssignment(c, q, n) ==
    Some([name |-> q.name, uid |-> q.uid, slot |-> n,
          reservation |-> FreshUid(ReservationName(q.name, n), {}),
          secret |-> SecretName(c, q.uid)])

\* how a MaskConsumer stands to the MaskProvider: not assigned, assigned,
\* assigned and being deleted, or assigned to the MaskProvider that held the
\* name before
Standings == {"free", "held", "leaving", "before"}

\* A MaskProvider with its deletion timestamp and its finalizer, with or
\* without the Pod and the Mask of a verification, and two MaskConsumers in
\* any standing, with or without their projected Secrets.
ReleaseInit ==
    /\ \E verifying \in BOOLEAN, standing \in [MaskNames -> Standings],
          projected \in [MaskNames -> BOOLEAN] :
        LET p == AllocProvider(<<"p">>, MaxSlotsBound, {"t"}, Nil, "Active", TRUE)
            before == [p EXCEPT !.uid = FreshUid(p.name, {p.uid})]
            vm == [AllocMask(get_verify_mask_name(p.name), "a", Nil) EXCEPT
                    !.verify = Some(p.uid), !.owner = Some(p.uid), !.phase = "Waiting"]
            vo == [AllocConsumer(vm.name, "a", Nil) EXCEPT
                    !.owner = vm.uid, !.verify = Some(p.uid), !.phase = "Waiting"]
            slot == [c \in MaskNames |-> IF c = "m0" THEN 0 ELSE 1]
            of(c) == IF standing[c] = "before" THEN before ELSE p
            consumer(c) == [AllocConsumer(c, "a", Nil) EXCEPT
                    !.delTs = (standing[c] = "leaving"),
                    !.phase = IF standing[c] = "free" THEN "Waiting" ELSE "Active",
                    !.provider = IF standing[c] = "free" THEN Nil
                                 ELSE SlotAssignment(c, of(c), slot[c])] IN
        /\ providers = {p}
        /\ masks = IF verifying THEN {vm} ELSE {}
        /\ pods = IF verifying THEN {verify_pod(p, vo)} ELSE {}
        /\ consumers = {consumer(c) : c \in MaskNames} \cup (IF verifying THEN {vo} ELSE {})
        /\ \A c \in MaskNames : standing[c] = "free" => ~projected[c]
        /\ secrets = {[name |-> SecretName(c, of(c).uid), owner |-> consumer(c).uid,
                        label |-> of(c).uid, data |-> "d1"] :
                            c \in {x \in MaskNames : projected[x]}}
        /\ reservations = {}
    /\ creds = [p \in AllProviderNames |-> "d1"]
    /\ cpc = [c \in AllMaskNames |-> "idle"]
    /\ cl = [c \in AllMaskNames |-> NoLocals]
    /\ budget = [maskCreates |-> [m \in MaskNames |-> 0],
                 providerCreates |-> [p \in ProviderNames |-> 0],
                 deletes |-> 0]
    /\ rpc = [n \in ReservationNames |-> "idle"]

ReleaseNext ==
    \E p \in ProviderNames : ProviderDelete(p) \/ ProviderDeleteFails(p)

ReleaseSpec == ReleaseInit /\ [][ReleaseNext]_vars

\* ---- the verification Mask seen by a pass of its MaskProvider ----

\* the phases a Mask's status can hold, and no status at all
VerifyMaskPhases == {None, "Pending", "Waiting", "Ready", "Active", "ErrNoProviders"}

\* A MaskProvider in verification with its verification Mask in any phase,
\* no Pod, and the MaskConsumer of the Mask absent, unassigned, assigned to
\* this MaskProvider or assigned to the MaskProvider that held the name
\* before, with or without the projected Secret.
VerifyMaskInit ==
    /\ \E phase \in VerifyMaskPhases, case \in {"none", "unassigned", "this", "other"},
          projected \in BOOLEAN :
        LET p == [AllocProvider(<<"p">>, MAX_SLOTS, {"t"}, Nil, "Verifying", FALSE)
                    EXCEPT !.skip = FALSE]
            q == IF case = "other" THEN [p EXCEPT !.uid = FreshUid(p.name, {p.uid})] ELSE p
            m == [AllocMask(get_verify_mask_name(p.name), "a", Nil) EXCEPT
                    !.verify = Some(q.uid), !.owner = Some(q.uid), !.phase = phase]
            assigned == case \in {"this", "other"}
            o == [AllocConsumer(m.name, "a", Nil) EXCEPT
                    !.owner = m.uid, !.verify = Some(q.uid),
                    !.phase = IF assigned THEN "Active" ELSE "Waiting",
                    !.provider = IF assigned THEN HeldAssignment(m.name, q) ELSE Nil] IN
        /\ providers = {p}
        /\ masks = {m}
        /\ consumers = IF case = "none" THEN {} ELSE {o}
        /\ reservations = IF assigned THEN {HeldReservation(m.name, q)} ELSE {}
        /\ assigned \/ ~projected
        /\ secrets = IF assigned /\ projected
                     THEN {[name |-> SecretName(m.name, q.uid), owner |-> o.uid,
                            label |-> q.uid, data |-> "d1"]}
                     ELSE {}
    /\ pods = {}
    /\ creds = [p \in AllProviderNames |-> "d1"]
    /\ cpc = [c \in AllMaskNames |-> "idle"]
    /\ cl = [c \in AllMaskNames |-> NoLocals]
    /\ budget = [maskCreates |-> [m \in MaskNames |-> 0],
                 providerCreates |-> [p \in ProviderNames |-> 0],
                 deletes |-> 0]
    /\ rpc = [n \in ReservationNames |-> "idle"]

VerifyMaskNext ==
    \E p \in ProviderNames :
        \/ ProviderCreateVerifyMask(p)
        \/ ProviderCreateVerifyPod(p)
        \/ ProviderVerifying(p)
        \/ ProviderVerifyFailed(p)
        \/ ProviderVerified(p)
        \/ Kubelet(p)
        \/ MaskDelete(get_verify_mask_name(p))

VerifyMaskSpec == VerifyMaskInit /\ [][VerifyMaskNext]_vars

\* ---- allocation passes that are interrupted ----

\* the pass of c fails or is cancelled after create_reservation has
\* answered and before the status of the MaskConsumer is patched
AssignInterrupted(c) ==
    /\ cpc[c] = "patch"
    /\ EndPass(c)
    /\ UNCHANGED <<providers, creds, masks, consumers, reservations, secrets, budget, pods, rpc>>

InterruptNext ==
    \/ \E c \in MaskNames : ConsumerReconciler(c)
    \/ \E c \in MaskNames : AssignInterrupted(c)
    \/ \E n \in ReservationNames : ReservationReconciler(n)

InterruptSpec == RerunInit /\ [][InterruptNext]_vars

\* ---- the four reconcilers beside each other, one MaskProvider that stays ----

\* the filter of the Mask m1: with two slots it asks for any MaskProvider,
\* with one slot for a tag that the MaskProvider does not have
SecondFilter(n) == IF n = 1 THEN Some({"u"}) ELSE Nil

\* One MaskProvider, Ready, that nobody deletes; the Masks it is eligible for
\* are no more than its slots. Slot 0 may be held by the MaskReservation of
\* a MaskConsumer that has left the store.
ServeInit ==
    /\ \E n \in 1..MaxSlotsBound, dangling \in BOOLEAN :
        LET p == AllocProvider(<<"p">>, n, {"t"}, Nil, "Ready", FALSE) IN
        /\ providers = {p}
        /\ masks = {AllocMask("m0", "a", Nil), AllocMask("m1", "a", SecondFilter(n))}
        /\ consumers = {AllocConsumer("m0", "a", Nil),
                        AllocConsumer("m1", "a", SecondFilter(n))}
        /\ reservations = IF dangling THEN {DanglingReservation(p)} ELSE {}
    /\ creds = [p \in AllProviderNames |-> "d1"]
    /\ secrets = {}
    /\ cpc = [c \in AllMaskNames |-> "idle"]
    /\ cl = [c \in AllMaskNames |-> NoLocals]
    /\ budget = [maskCreates |-> [m \in MaskNames |-> 0],
                 providerCreates |-> [p \in ProviderNames |-> 0],
                 deletes |-> 0]
    /\ pods = {}
    /\ rpc = [n \in ReservationNames |-> "idle"]

\* no pass of a MaskReservation is between its read and its write
ReservationsIdle == \A n \in ReservationNames : rpc[n] = "idle"

\* The passes of the MaskConsumers run beside each other; a pass of a
\* MaskReservation that has read runs to its write before anything else
\* steps. These are behaviours of the four controllers, not all of them.
ServeNext ==
    \/ ReservationsIdle /\ \E m \in MaskNames : MaskCreateConsumer(m)
    \/ ReservationsIdle /\ \E c \in MaskNames : ConsumerReconciler(c)
    \/ ReservationsIdle /\ \E p \in ProviderNames : ProviderStatus(p)
    \/ ReservationsIdle /\ \E c \in MaskNames : CollectSecret(c)
    \/ \E n \in ReservationNames :
        /\ \A k \in ReservationNames \ {n} : rpc[k] = "idle"
        /\ ReservationReconciler(n)

\* every controller runs the pass that is due for each of its objects: the
\* fairness is that of the passes themselves, so a fair behaviour of
\* ServeNext is a fair behaviour of the controllers
ServeFairness ==
    /\ \A m \in MaskNames :
        /\ WF_vars(MaskReconciler(m))
        /\ WF_vars(ConsumerReconciler(m))
        /\ WF_vars(CollectSecret(m))
    /\ \A n \in ReservationNames : WF_vars(ReservationReconciler(n))
    /\ \A p \in ProviderNames : WF_vars(ProviderReconciler(p))

FairServe == ServeInit /\ [][ServeNext]_vars /\ ServeFairness

\* ---- JSON values: serde_json::Value ----

JNull == [kind |-> "null"]

JScalar(v) == [kind |-> "scalar", v |-> v]

\* an object: a function from the keys it has to their values
JObject(fields) == [kind |-> "object", fields |-> fields]

IsObject(v) == v.kind = "object"

Keys(v) == DOMAIN v.fields

\* the objects with keys among K and values among V
ObjectsOver(K, V) == {JObject(f) : f \in UNION {[S -> V] : S \in SUBSET K}}

\* the object v with the key k set to x, and without the key k
WithKey(v, k, x) ==
    JObject([j \in Keys(v) \cup {k} |-> IF j = k THEN x ELSE v.fields[j]])

WithoutKey(v, k) == JObject([j \in Keys(v) \ {k} |-> v.fields[j]])

\* the value at a path of keys, if there is one
RECURSIVE Lookup(_, _)
Lookup(v, path) ==
    IF path = <<>> THEN Some(v)
    ELSE IF IsObject(v) /\ Head(path) \in Keys(v)
    THEN Lookup(v.fields[Head(path)], Tail(path))
    ELSE Nil

\* ---- patch_status: a JSON Patch made from a snapshot ----

\* json_patch::diff: the operations that turn a into b; objects are compared
\* key by key, every other difference is a replace of the value
RECURSIVE diff(_, _, _)
diff_whole(a, b, path) ==
    IF a = b THEN {} ELSE {[op |-> "replace", path |-> path, value |-> b]}

diff(a, b, path) ==
    IF a = b THEN {}
    ELSE IF IsObject(a) /\ IsObject(b)
    THEN {[op |-> "remove", path |-> Append(path, k), value |-> JNull] :
                k \in Keys(a) \ Keys(b)}
         \cup {[op |-> "add", path |-> Append(path, k), value |-> b.fields[k]] :
                k \in Keys(b) \ Keys(a)}
         \cup UNION {diff(a.fields[k], b.fields[k], Append(path, k)) :
                k \in Keys(a) \cap Keys(b)}
    ELSE {[op |-> "replace", path |-> path, value |-> b]}

Parent(path) == SubSeq(path, 1, Len(path) - 1)

\* RFC 6902: add needs the parent to be an object, replace and remove need
\* the target to be there
Applicable(doc, o) ==
    IF o.path = <<>> THEN o.op # "remove"
    ELSE IF o.op = "add"
    THEN Lookup(doc, Parent(o.path)) # Nil /\ IsObject(Val(Lookup(doc, Parent(o.path))))
    ELSE Lookup(doc, o.path) # Nil

\* the document after one operation
RECURSIVE Edit(_, _, _)
Edit(doc, path, o) ==
    IF path = <<>> THEN o.value
    ELSE IF Len(path) = 1
    THEN (IF o.op = "remove" THEN WithoutKey(doc, Head(path))
          ELSE WithKey(doc, Head(path), o.value))
    ELSE WithKey(doc, Head(path), Edit(doc.fields[Head(path)], Tail(path), o))

RECURSIVE ApplyAll(_, _)
ApplyAll(doc, ops) ==
    IF ops = {} THEN doc
    ELSE LET o == CHOOSE x \in ops : TRUE IN ApplyAll(Edit(doc, o.path, o), ops \ {o})

\* the API server applies the patch as a whole or answers with an error
ApplyPatch(doc, ops) ==
    IF \A o \in ops : Applicable(doc, o) THEN ApplyAll(doc, ops) ELSE doc

StatusKeys == {"phase", "message", "provider", "lastUpdated"}

\* Default::default() of a status: every field None, serialized as null
DefaultStatus == JObject([k \in StatusKeys |-> JNull])

\* the status of the object, the default one if it has none
mut_status(doc) ==
    IF "status" \in Keys(doc) THEN doc.fields["status"] ELSE DefaultStatus

set_last_updated(status, now) == WithKey(status, "lastUpdated", JScalar(now))

\* the callbacks of the MaskConsumer reconciler and of unassign_all
AssignedProviders ==
    {JObject([name |-> JScalar("p"), slot |-> JScalar(n)]) : n \in {0, 1}}

Callbacks ==
    {<<"pending">>, <<"active">>, <<"waiting">>, <<"unassign">>}
        \cup {<<"assign", a>> : a \in AssignedProviders}

Callback(f, status) ==
    CASE f[1] = "pending" ->
            WithKey(WithKey(status, "message", JScalar("pending")), "phase", JScalar("Pending"))
      [] f[1] = "active" ->
            WithKey(WithKey(status, "phase", JScalar("Active")), "message", JScalar("active"))
      [] f[1] = "waiting" ->
            WithKey(WithKey(status, "phase", JScalar("Waiting")), "message", JScalar("waiting"))
      [] f[1] = "unassign" ->
            WithKey(WithKey(WithKey(status, "provider", JNull), "message", JScalar("unassigned")),
                    "phase", JScalar("Pending"))
      [] OTHER ->
            WithKey(WithKey(status, "provider", f[2]), "message", JScalar("reserved"))

\* the instance after the callback and set_last_updated
modified(instance, f, now) ==
    WithKey(instance, "status", set_last_updated(Callback(f, mut_status(instance)), now))

\* patch_status: the stored document after the patch computed from the
\* instance is applied to it
patch_status(stored, instance, f, now) ==
    ApplyPatch(stored, diff(instance, modified(instance, f, now), <<>>))

\* how many times the status of one object is written
MaxPatches == 4

\* the time of the last write of the stored document
LastUpdated(doc) ==
    IF "status" \in Keys(doc) /\ doc.fields["status"].fields["lastUpdated"] # JNull
    THEN doc.fields["status"].fields["lastUpdated"].v
    ELSE 0

\* the stored MaskConsumer and the instance held by its reconciler
Stored(c) == (CHOOSE o \in consumers : o.name = c).doc

Instance(c) == cl[c]

\* the field of the status of a document, null if it has no status
StatusField(doc, k) == mut_status(doc).fields[k]

\* needs_pending of the instance: no status, or no phase
patch_needs_pending(doc) == StatusField(doc, "phase") = JNull

\* a fresh MaskConsumer, without status, and the same in the cache
PatchInit ==
    /\ consumers = {[name |-> "m0", doc |-> JObject([spec |-> JScalar("s")])]}
    /\ cl = [c \in AllMaskNames |-> JObject([spec |-> JScalar("s")])]
    /\ providers = {}
    /\ masks = {}
    /\ reservations = {}
    /\ secrets = {}
    /\ pods = {}
    /\ creds = [p \in AllProviderNames |-> "d1"]
    /\ cpc = [c \in AllMaskNames |-> "idle"]
    /\ budget = [maskCreates |-> [m \in MaskNames |-> 0],
                 providerCreates |-> [p \in ProviderNames |-> 0],
                 deletes |-> 0]
    /\ rpc = [n \in ReservationNames |-> "idle"]

\* the cache of the controller catches up with the store
Observe(c) ==
    /\ cl[c] # Stored(c)
    /\ cl' = [cl EXCEPT ![c] = Stored(c)]
    /\ UNCHANGED <<providers, creds, masks, consumers, reservations, secrets, cpc, budget, pods, rpc>>

\* a pass of the reconciler of c patches the status from its instance:
\* Pending on an instance without phase, the other callbacks on one with it
ReconcilerPatch(c, f) ==
    /\ f[1] # "unassign"
    /\ LastUpdated(Stored(c)) < MaxPatches
    /\ (f[1] = "pending") = patch_needs_pending(Instance(c))
    /\ consumers' = {[name |-> c,
                      doc |-> patch_status(Stored(c), Instance(c), f,
                                           LastUpdated(Stored(c)) + 1)]}
    /\ UNCHANGED <<providers, creds, masks, reservations, secrets, cpc, cl, budget, pods, rpc>>

\* unassign_all of a MaskProvider patches the MaskConsumer it has just listed
UnassignPatch(c) ==
    /\ LastUpdated(Stored(c)) < MaxPatches
    /\ StatusField(Stored(c), "provider") # JNull
    /\ consumers' = {[name |-> c,
                      doc |-> patch_status(Stored(c), Stored(c), <<"unassign">>,
                                           LastUpdated(Stored(c)) + 1)]}
    /\ UNCHANGED <<providers, creds, masks, reservations, secrets, cpc, cl, budget, pods, rpc>>

PatchNext ==
    \/ Observe("m0")
    \/ \E f \in Callbacks : ReconcilerPatch("m0", f)
    \/ UnassignPatch("m0")

PatchSpec == PatchInit /\ [][PatchNext]_vars

\* ---- deep_merge: the overrides of a container of the verification Pod ----

\* deep_merge(a, b): where both are objects, every key of b with null is
\* removed from a and every other key of b is merged into the value a has
\* for it (null if it has none); otherwise b takes the place of a
RECURSIVE deep_merge(_, _)
deep_merge(a, b) ==
    IF IsObject(a) /\ IsObject(b)
    THEN LET removed == {k \in Keys(b) : b.fields[k] = JNull}
             merged == Keys(b) \ removed IN
         JObject([k \in (Keys(a) \ removed) \cup merged |->
                    IF k \in merged
                    THEN deep_merge(IF k \in Keys(a) THEN a.fields[k] ELSE JNull, b.fields[k])
                    ELSE a.fields[k]])
    ELSE b

MergeKeys == {"x", "y"}

\* the values of a serialized container: no nulls, as None is skipped
ContainerValues == {JScalar(1), JScalar(2)}

ContainerObjects ==
    ObjectsOver(MergeKeys, ContainerValues \cup ObjectsOver(MergeKeys, ContainerValues))

\* the values of the overrides, which are any JSON of the MaskProvider spec
OverrideValues == {JNull, JScalar(1), JScalar(2)}

Overrides ==
    OverrideValues \cup ObjectsOver(MergeKeys, OverrideValues \cup ObjectsOver(MergeKeys, OverrideValues))

\* how many times the overrides are merged into one container
MaxMerges == 2

\* a MaskProvider with overrides for a container, and the container
MergeInit ==
    /\ \E a \in ContainerObjects, b \in Overrides :
        /\ providers = {[name |-> <<"p">>, overrides |-> b]}
        /\ pods = {[name |-> <<"p">>, container |-> a, merges |-> 0]}
    /\ masks = {}
    /\ consumers = {}
    /\ reservations = {}
    /\ secrets = {}
    /\ creds = [p \in AllProviderNames |-> "d1"]
    /\ cpc = [c \in AllMaskNames |-> "idle"]
    /\ cl = [c \in AllMaskNames |-> NoLocals]
    /\ budget = [maskCreates |-> [m \in MaskNames |-> 0],
                 providerCreates |-> [p \in ProviderNames |-> 0],
                 deletes |-> 0]
    /\ rpc = [n \in ReservationNames |-> "idle"]

\* merge_containers: the overrides are merged into the container
merge_containers(p) ==
    /\ \E x \in pods, o \in providers :
        /\ x.name = p /\ o.name = p
        /\ x.merges < MaxMerges
        /\ pods' = {[x EXCEPT !.container = deep_merge(x.container, o.overrides),
                              !.merges = @ + 1]}
    /\ UNCHANGED <<providers, creds, masks, consumers, reservations, secrets, cpc, cl, budget, rpc>>

MergeNext == \E p \in ProviderNames : merge_containers(p)

MergeSpec == MergeInit /\ [][MergeNext]_vars

\* the VPN container of the Pod is running and its probe container is
\* terminated with exit code 0
ProbeDone(pod) ==
    /\ \E i \in 1..Len(pod.containers) :
        pod.containers[i].name = "vpn" /\ pod.containers[i].running
    /\ \E i \in 1..Len(pod.containers) :
        pod.containers[i].name = "probe" /\ pod.containers[i].terminated = Some(0)

\* the conditions of the Pod that say PodScheduled = False
NotScheduled(pod) ==
    {i \in 1..Len(pod.conditions) :
        pod.conditions[i].type = "PodScheduled" /\ pod.conditions[i].status = "False"}

\* the result of the verification for a Pod of that status and age
Classification(pod, age, timeout) ==
    IF ProbeDone(pod) THEN "Verified"
    ELSE IF pod.phase = "Pending" /\ NotScheduled(pod) # {} THEN "VerifyFailed"
    ELSE IF pod.phase \in {"Pending", "Running"}
    THEN (IF age <= timeout THEN "Verifying" ELSE "VerifyFailed")
    ELSE IF pod.phase = "Succeeded" THEN "Verified"
    ELSE "VerifyFailed"

\* the phase that the result of a verification is written as
PhaseOfResult ==
    [Verified |-> "Verified", VerifyFailed |-> "ErrVerifyFailed", Verifying |-> "Verifying"]

\* C31: the result of the verification is this function of the status of
\* the Pod: Verified if the VPN container is running and the probe is
\* terminated with exit code 0, whatever the phase; otherwise a failure
\* with the message of the condition if the phase is Pending and a condition
\* PodScheduled = False is there, at any age; otherwise, for Pending or
\* Running, Verifying up to the timeout and a failure beyond it; Verified
\* for Succeeded; a failure for every other phase.  The MaskProvider
\* reconciler writes the phase of that result.
C31_PodClassification ==
    /\ [](\A pod \in pods, p \in providers, age \in PodAges :
            determine_verify_pod_action(pod, pod_too_old(age, get_verify_timeout(p)))
                = Classification(pod, age, get_verify_timeout(p)))
    /\ [](\A pod \in pods, late \in BOOLEAN :
            (~ProbeDone(pod) /\ pod.phase = "Pending") =>
                \A i \in NotScheduled(pod) :
                    (pod.conditions[i].message # Nil /\ \A j \in NotScheduled(pod) : i <= j) =>
                        determine_verify_pod_message(pod, late) = pod.conditions[i].message)
    /\ [][\A p \in providers, pod \in pods :
            (/\ pod.name = p.name
             /\ \E q \in providers' : q.uid = p.uid /\ q.phase # p.phase) =>
                \E q \in providers', age \in PodAges :
                    /\ q.uid = p.uid
                    /\ q.phase = PhaseOfResult[Classification(pod, age, get_verify_timeout(p))]]_vars

\* the MaskProvider has failed its verification on a Pod that is Pending
\* with the conditions Ready = False and PodScheduled = False, whose
\* probe has exited with 0 while the VPN container was not running
C31_Witness ==
    \E p \in providers, pod \in pods :
        /\ pod.name = p.name
        /\ p.phase = "ErrVerifyFailed"
        /\ pod.phase = "Pending"
        /\ Len(pod.conditions) = 2
        /\ determine_verify_pod_message(pod, FALSE) = Some("no nodes")
        /\ \E i \in 1..Len(pod.containers) : pod.containers[i].terminated = Some(0)
        /\ ~ProbeDone(pod)

\* the verification Masks and the verification Pods of a MaskProvider
VerifyMasksOf(p) == {m \in masks : m.name = get_verify_mask_name(p.name) /\ m.ns = p.ns}

VerifyPodsOf(p) == {x \in pods : x.name = p.name}

\* C32: the verification Pod is created only when the verification Mask is
\* Ready or Active and its MaskConsumer is assigned to this very
\* MaskProvider; while the verification Mask is Pending or Waiting a
\* MaskProvider in verification stays Verifying and no Pod is created; on
\* a verification Mask in ErrNoProviders the pass of the MaskProvider is
\* the one that fails the verification.
C32_VerifyCapacity ==
    /\ [][\A p \in providers :
            /\ (VerifyPodsOf(p) = {} /\ {x \in pods' : x.name = p.name} # {}) =>
                    \E m \in VerifyMasksOf(p) :
                        m.phase \in {"Ready", "Active"} /\ AssignedTo(m.name, p)
            /\ (/\ VerifyPodsOf(p) = {}
                 /\ p.phase = "Verifying"
                 /\ \E m \in VerifyMasksOf(p) : m.phase \in {"Pending", "Waiting"}) =>
                    /\ pods' = pods
                    /\ \A q \in providers' : q.uid = p.uid => q.phase = "Verifying"
            /\ (/\ VerifyPodsOf(p) = {}
                 /\ \E m \in VerifyMasksOf(p) : m.phase = "ErrNoProviders"
                 /\ providers' # providers) =>
                    \A q \in providers' : q.uid = p.uid => q.phase = "ErrVerifyFailed"]_vars
    /\ [](\A p \in providers :
            (/\ VerifyPodsOf(p) = {}
             /\ p.phase = "Verifying"
             /\ \E m \in VerifyMasksOf(p) : m.phase = "ErrNoProviders") =>
                /\ ENABLED <<ProviderVerifyFailed(p.name)>>_vars
                /\ ~ENABLED <<ProviderCreateVerifyPod(p.name)>>_vars)

\* the Pod of a verification is there, made from a verification Mask that is
\* Ready and whose MaskConsumer is assigned to the MaskProvider
C32_Witness ==
    \E p \in providers, m \in masks :
        /\ m \in VerifyMasksOf(p)
        /\ m.phase = "Ready"
        /\ AssignedTo(m.name, p)
        /\ VerifyPodsOf(p) # {}
        /\ p.phase = "Verifying"

\* the verification of the MaskProvider p has failed
FailedVerification(p) ==
    \E o \in providers : o.name = p /\ ~o.delTs /\ o.phase = "ErrVerifyFailed"

\* the MaskProvider p is Verifying with a verification Mask that is not
\* being deleted
NewVerification(p) ==
    \E o \in providers, m \in masks :
        /\ o.name = p /\ o.phase = "Verifying"
        /\ m.name = get_verify_mask_name(p) /\ ~m.delTs

\* the MaskProvider p is deleted, or its credential is missing
Withdrawn(p) ==
    \/ ~Has(providers, p)
    \/ Get(providers, p).delTs
    \/ creds[p] = None

\* C33: the pass that writes ErrVerifyFailed deletes the verification Pod
\* and the verification Mask; under fair scheduling a MaskProvider whose
\* verification has failed is eventually Verifying with a new verification
\* Mask, unless it is deleted or loses its credential; and no pass takes a
\* MaskProvider from ErrVerifyFailed to Ready or Active.
C33_VerifyRetry ==
    /\ [][\A p \in providers, q \in providers' :
            (q.uid = p.uid /\ p.phase # "ErrVerifyFailed" /\ q.phase = "ErrVerifyFailed") =>
                /\ \A x \in pods' : x.name = p.name => x.delTs
                /\ \A m \in masks' : m.name = get_verify_mask_name(p.name) => m.delTs]_vars
    /\ \A p \in ProviderNames :
            FailedVerification(p) ~> (NewVerification(p) \/ Withdrawn(p))
    /\ [][\A p \in providers, q \in providers' :
            (q.uid = p.uid /\ p.phase = "ErrVerifyFailed") =>
                q.phase \notin {"Ready", "Active"}]_vars

\* the MaskProvider p loses its finalizer in this step
Released(p) ==
    /\ p.delTs /\ p.fin
    /\ ~\E q \in providers' : q.uid = p.uid /\ q.fin

\* after the step the Pod and the Mask of the verification of p are deleted
VerificationDeleted(p) ==
    /\ \A x \in pods' : x.name = p.name => x.delTs
    /\ \A m \in masks' : m.name = get_verify_mask_name(p.name) => m.delTs

\* after the step the MaskConsumer o has no assignment and its projected
\* Secret of p is not in the store
Unassigned34(p, o) ==
    /\ \A x \in consumers' : x.uid = o.uid => x.provider = Nil
    /\ ~\E x \in secrets' : x.name = SecretName(o.name, p.uid)

\* C34 as stated: the finalizer of a MaskProvider with a deletion timestamp
\* is removed only by a step that leaves the Pod and the Mask of its
\* verification deleted and every MaskConsumer whose status points at it
\* (name and uid) without assignment and without its projected Secret; a
\* pass in which a call fails keeps the finalizer.
C34_DeleteOrdering ==
    [][\A p \in providers :
        Released(p) =>
            /\ VerificationDeleted(p)
            /\ \A o \in consumers : mask_uses_provider(p, o) => Unassigned34(p, o)]_vars

\* C34, amended: the same for every MaskConsumer whose status points at the
\* MaskProvider and that has no deletion timestamp; the MaskConsumers that
\* are being deleted are not listed and keep their assignment and Secret.
C34_DeleteOrderingListed ==
    [][\A p \in providers :
        Released(p) =>
            /\ VerificationDeleted(p)
            /\ \A o \in consumers :
                (mask_uses_provider(p, o) /\ ~o.delTs) => Unassigned34(p, o)]_vars

\* the MaskProvider is released: it is gone, the Pod and the Mask of its
\* verification are deleted, one MaskConsumer has lost its assignment and
\* the other, assigned to the MaskProvider that held the name before, has
\* kept its assignment and its Secret
C34_Witness ==
    /\ providers = {}
    /\ \E x \in pods : x.delTs
    /\ \E m \in masks : m.delTs
    /\ \E o \in consumers : o.name = "m0" /\ o.provider = Nil /\ o.phase = "Pending"
    /\ \E o \in consumers : o.name = "m1" /\ o.provider # Nil
    /\ Cardinality(secrets) = 1

\* the pass of the MaskConsumer c is about to delete a MaskReservation that
\* check_prune found dangling and that is no longer in the store
PruneNotFound(c) ==
    /\ cpc[c] = "prunedel"
    /\ ~Has(reservations, ReservationName(Head(cl[c].prune).name, cl[c].pslot))

\* C35: a delete that is answered with 404 counts as done and the pass goes
\* on: the prune of a MaskReservation that another pass has removed goes on
\* to the next slot as after a delete that succeeded, and the passes that
\* delete the Pod and the Mask of a verification that are already gone end
\* as they do when these are there.
C35_NotFoundIsSuccess ==
    /\ [][\A c \in AllMaskNames :
            (PruneNotFound(c) /\ <<cpc[c], cl[c]>>' # <<cpc[c], cl[c]>>) =>
                <<cpc[c], cl[c]>>' = NextSlot([cl[c] EXCEPT !.pruned = TRUE])]_vars
    /\ [][\A p \in providers, q \in providers' :
            (/\ q.uid = p.uid /\ q.phase # p.phase
             /\ q.phase \in {"Verified", "ErrVerifyFailed"}) =>
                /\ \A x \in pods' : x.name = p.name => x.delTs
                /\ \A m \in masks' : m.name = get_verify_mask_name(p.name) => m.delTs]_vars

\* the status fields that the callback f leaves as the instance has them
Untouched(instance, f) ==
    {k \in StatusKeys \ {"lastUpdated"} :
        Callback(f, mut_status(instance)).fields[k] = mut_status(instance).fields[k]}

\* C36: a status patch computed from the instance of a reconciler changes,
\* in the stored object, only the status fields that the callback changed
\* and lastUpdated: the spec and every status field that the callback left
\* alone keep the stored value, also when another writer has written it
\* after the instance was read.
C36_PatchFrame ==
    [][\A c \in {"m0"}, f \in Callbacks :
        ReconcilerPatch(c, f) =>
            /\ Stored(c)'.fields["spec"] = Stored(c).fields["spec"]
            /\ \A k \in Untouched(Instance(c), f) :
                    StatusField(Stored(c), k)' = StatusField(Stored(c), k)]_vars

\* the stored MaskConsumer was unassigned by unassign_all after the instance
\* was read, and was then written the phase Active from that instance: its
\* status.provider is still null while the instance holds an assignment
C36_Witness ==
    /\ StatusField(Stored("m0"), "provider") = JNull
    /\ StatusField(Instance("m0"), "provider") # JNull
    /\ StatusField(Stored("m0"), "phase") = JScalar("Active")
    /\ StatusField(Stored("m0"), "message") = JScalar("active")
    /\ LastUpdated(Stored("m0")) = LastUpdated(Instance("m0")) + 2

\* the paths of keys of a JSON value of the model
MergePaths ==
    {<<k>> : k \in MergeKeys} \cup {<<k, j>> : k, j \in MergeKeys}
        \cup {<<k, j, i>> : k, j, i \in MergeKeys}

\* the result r of merging b into a is as the claim says at the top and,
\* where a, b and r are objects, at every key
RECURSIVE MergedAsClaimed(_, _, _)
MergedAsClaimed(a, b, r) ==
    IF IsObject(a) /\ IsObject(b)
    THEN /\ IsObject(r)
         /\ \A k \in Keys(a) \ Keys(b) : k \in Keys(r) /\ r.fields[k] = a.fields[k]
         /\ \A k \in Keys(b) :
                IF b.fields[k] = JNull THEN k \notin Keys(r)
                ELSE /\ k \in Keys(r)
                     /\ IF k \in Keys(a)
                        THEN MergedAsClaimed(a.fields[k], b.fields[k], r.fields[k])
                        ELSE r.fields[k] = b.fields[k]
    ELSE r = b

\* C37: merging the overrides b into a: where both are objects the merge
\* goes key by key, the keys of a that b does not have are unchanged, and
\* every other value of b takes the place of the value of a; the result has
\* no key at any path at which b holds null; and merging b a second time
\* changes nothing.
C37_DeepMerge ==
    [][\A x \in pods, o \in providers :
        \A y \in pods' :
            y.merges = x.merges + 1 =>
                /\ MergedAsClaimed(x.container, o.overrides, y.container)
                /\ \A path \in MergePaths :
                        Lookup(o.overrides, path) = Some(JNull) =>
                            Lookup(y.container, path) = Nil
                /\ x.merges >= 1 => y.container = x.container]_vars

\* no pass of a MaskConsumer or MaskReservation reconciler is under way,
\* and the next ones are a NoOp or one more attempt of a MaskConsumer that
\* waits for a slot
AllocationQuiescent ==
    /\ \A o \in consumers : ConsumerQuiet(o)
    /\ \A r \in reservations : ReservationQuiet(r)

\* the MaskReservations whose spec names the MaskConsumer o
ReservationsOf(o) ==
    {r \in reservations : r.spec = [name |-> o.name, uid |-> o.uid]}

\* the status of some MaskConsumer records the MaskReservation r
Recorded(r) ==
    \E o \in consumers :
        /\ o.provider # Nil
        /\ Val(o.provider).reservation = r.uid
        /\ ReservationName(Val(o.provider).name, Val(o.provider).slot) = r.name

\* C38: in every quiescent state, with passes that were interrupted between
\* the create of the MaskReservation and the patch of the status, every
\* MaskConsumer is named by at most one MaskReservation and every
\* MaskReservation in the store is recorded by the status of a MaskConsumer.
C38_NoLeak ==
    AllocationQuiescent =>
        /\ \A o \in consumers : Cardinality(ReservationsOf(o)) <= 1
        /\ \A r \in reservations : Recorded(r)

\* the MaskProvider that the assignment a names is being deleted
ProviderLeaving(a) == \E p \in providers : p.name = a.name /\ p.uid = a.uid /\ p.delTs

\* C40: no rebalancing: a step never gives a MaskConsumer that has an
\* assignment another MaskProvider, slot or MaskReservation uid; the
\* assignment of a MaskConsumer that stays in the store is only cleared, and
\* only while its MaskProvider is being deleted; and no pass starts
\* assign_provider on a MaskConsumer that has an assignment.
C40_NoRebalancing ==
    [][/\ \A o \in consumers, x \in consumers' :
            (o.provider # Nil /\ x.uid = o.uid /\ x.provider # o.provider)
                => x.provider = Nil /\ ProviderLeaving(Val(o.provider))
       /\ \A c \in MaskNames :
            AssignStart(c) => Get(consumers, c).provider = Nil]_vars

\* a MaskConsumer is Active on slot 0 of its MaskProvider while slot 1 of
\* that MaskProvider is free, and its next pass is a NoOp
C40_Witness ==
    \E o \in consumers, p \in providers :
        /\ o.phase = "Active" /\ mask_uses_provider(p, o)
        /\ Val(o.provider).slot = 0
        /\ 1 \in list_inactive_slots(p)
        /\ ~p.delTs /\ p.phase \in {"Ready", "Active"}
        /\ determine_action(o) = "Status"
        /\ cpc[o.name] = "idle"

\* the MaskConsumer of the Mask m is Active and holds a slot of a MaskProvider
\* that is Ready or Active: the MaskReservation of its status is in the
\* store, owned by that MaskProvider, and names it
Serving(m) ==
    \E o \in consumers, p \in providers, r \in reservations :
        /\ o.name = m /\ o.phase = "Active" /\ ~o.delTs
        /\ ~p.delTs /\ p.phase \in {"Ready", "Active"}
        /\ mask_uses_provider(p, o)
        /\ r.name = ReservationName(p.name, Val(o.provider).slot)
        /\ r.uid = Val(o.provider).reservation
        /\ r.owner = p.uid
        /\ r.spec = [name |-> o.name, uid |-> o.uid]

\* the Mask m is in the store and a MaskProvider is eligible for it
Asking(m) ==
    \E x \in masks :
        x.name = m /\ ~x.delTs /\ list_active_providers(x.providers, x.ns) # {}

\* C39: no starvation: with the four reconcilers weakly fair, a MaskProvider
\* that stays Ready and no more Masks eligible for it than it has slots,
\* every such Mask eventually has a MaskConsumer that is Active and holds
\* one of the slots.
C39_NoStarvation == \A m \in MaskNames : Asking(m) ~> Serving(m)

====
